---- MODULE Spec2Model ----
(***************************************************************************)
(* Model of onion's RequestExecutor (src/request_executor.go): the bounded *)
(* concurrent dispatcher Execute / executeRequest, the result store guarded *)
(* by re.mu, the cross-layer evaluation at the end of executeRequest, the   *)
(* content normalizer ExtractRaw (src/unnamed/part_006) and the status      *)
(* report of WriteMismatchesToFile.                                         *)
(*                                                                         *)
(* Byte strings are sequences of naturals; a nil slice is <<>> (bytes.Equal *)
(* and len do not tell nil from empty).  A Go map is a function whose       *)
(* DOMAIN is its key set; a Results struct is a function whose DOMAIN is    *)
(* the set of its non-nil slots.  Response headers are opaque to every      *)
(* decision of the code and are left out of Result.                        *)
(***************************************************************************)
EXTENDS Naturals, Sequences, FiniteSets, TLC

(* Number of unique paths of the replayed request set (len(re.reqs)). *)
NumPaths == 3

(* Capacity of the semaphore of Execute.  The code sets 6                  *)
(* (request_executor.go:16; 5 in the earlier revision); the model scales   *)
(* it down so that the limit binds with NumPaths paths.                    *)
defaultConcurrency == 2

(* SpecEval: at most MaxOdd layers of the path answer something else than  *)
(* the default response (200 with the canonical content).                  *)
MaxOdd == 2

(* SpecReplay: number of paths of the request set. *)
ReplayPaths == 2

(* SpecStartup: largest value of the -c flag and largest number of unique  *)
(* paths in the replay log.                                                *)
MaxCount == 2

StatusOK == 200

Paths == 1..NumPaths

(* The component strings of addResultF. *)
Layers == {"kubogw", "bifrost", "lassie", "l1shim", "l1nginx"}

(* Layers that answer with a CAR, and layers that have read counters. *)
CarLayers == {"lassie", "l1shim", "l1nginx"}
ReadLayers == {"lassie", "l1shim", "l1nginx", "bifrost"}

(* ---------------------------------------------------------------------- *)
(* Pairs.  first/second are the layers in the order the code names them.   *)
(* ---------------------------------------------------------------------- *)
PairLayers ==
  [KuboLassie   |-> <<"kubogw", "lassie">>,
   KuboL1Shim   |-> <<"kubogw", "l1shim">>,
   KuboL1Nginx  |-> <<"kubogw", "l1nginx">>,
   KuboBifrost  |-> <<"kubogw", "bifrost">>,
   LassieShim   |-> <<"lassie", "l1shim">>,
   ShimNginx    |-> <<"l1shim", "l1nginx">>,
   NginxBifrost |-> <<"l1nginx", "bifrost">>]

(* Pairs whose bytes executeRequest compares (fields of ResponseBytesMismatch). *)
ContentPairs == {"KuboLassie", "KuboL1Shim", "KuboL1Nginx", "KuboBifrost", "LassieShim", "ShimNginx"}
(* Pairs that have a match counter TotalKubo<X>Matches. *)
KuboPairs == {"KuboLassie", "KuboL1Shim", "KuboL1Nginx", "KuboBifrost"}
(* Kubo pairs whose second side goes through ExtractRaw. *)
KuboCarPairs == {"KuboLassie", "KuboL1Shim", "KuboL1Nginx"}
(* Pairs for which WriteMismatchesToFile computes a status mismatch set. *)
StatusPairs == {"KuboLassie", "KuboBifrost", "LassieShim", "ShimNginx", "NginxBifrost"}

First(pair) == PairLayers[pair][1]
Second(pair) == PairLayers[pair][2]

(* ---------------------------------------------------------------------- *)
(* Maps.                                                                    *)
(* ---------------------------------------------------------------------- *)
EmptyMap == [x \in {} |-> 0]
MapPut(m, k, v) == [x \in (DOMAIN m) \cup {k} |-> IF x = k THEN v ELSE m[x]]

(* ---------------------------------------------------------------------- *)
(* What a server (or the network) answers to one GET.                      *)
(* ---------------------------------------------------------------------- *)
Transport == [kind |-> "transport", status |-> 0, readErr |-> FALSE, body |-> <<>>]
Http(s, re, b) == [kind |-> "http", status |-> s, readErr |-> re, body |-> b]

(* Bodies.  A CAR is written <<9, r>> \o payload: 9 is the container       *)
(* header, r describes the root (0: no root, 1: raw block, 2: dag-pb       *)
(* UnixFS file, 3: dag-pb file with a child block missing, 4: raw root     *)
(* whose block is absent, 5: dag-pb root whose block is absent), and       *)
(* payload is the file content.  Anything else is not a CAR.               *)
RawBodies == {<<1, 2>>, <<1, 3>>, <<>>}
CarBodies == {<<9, 2, 1, 2>>, <<9, 2, 1, 3>>, <<9, 2>>, <<9, 1, 1, 2>>, <<9, 3, 1, 2>>, <<1, 2>>}

Bodies(l) == IF l \in CarLayers THEN CarBodies ELSE RawBodies

Responses(l) ==
  {Transport, Http(StatusOK, TRUE, <<>>), Http(206, FALSE, <<1>>), Http(502, FALSE, <<7>>),
   Http(502, TRUE, <<>>)}
    \cup {Http(StatusOK, FALSE, b) : b \in Bodies(l)}

DefaultResponse(l) ==
  IF l \in CarLayers THEN Http(StatusOK, FALSE, <<9, 2, 1, 2>>) ELSE Http(StatusOK, FALSE, <<1, 2>>)

(* ---------------------------------------------------------------------- *)
(* executeHTTPRequest: one GET, classified into a Result.                  *)
(* ---------------------------------------------------------------------- *)
NoErrorBody == [kind |-> "none", text |-> <<>>]

NewResult(url) ==
  [Url |-> url, StatusCode |-> 0, ErrorBody |-> NoErrorBody,
   ResponseBodyReadError |-> "", ResponseBody |-> <<>>, ResponseSize |-> 0]

(* Mutant of executeHTTPRequest: a failed read of a 200 body is reported in *)
(* ErrorBody, like the failed read of an error body.                       *)
ReadErrorAsErrorBody(url, r) ==
  IF r.kind = "transport"
  THEN [NewResult(url) EXCEPT !.ErrorBody = [kind |-> "error sending request", text |-> <<>>]]
  ELSE IF r.readErr
       THEN [NewResult(url) EXCEPT !.StatusCode = r.status,
                                   !.ErrorBody = [kind |-> "error reading response body", text |-> <<>>]]
       ELSE IF r.status = StatusOK
            THEN [NewResult(url) EXCEPT !.StatusCode = r.status, !.ResponseBody = r.body,
                                        !.ResponseSize = Len(r.body)]
            ELSE [NewResult(url) EXCEPT !.StatusCode = r.status,
                                        !.ErrorBody = [kind |-> "body", text |-> r.body]]

(* Mutant of executeHTTPRequest: the error of client.Get is dropped. *)
SendErrorDropped(url, r) ==
  [NewResult(url) EXCEPT !.StatusCode = r.status, !.ResponseBody = r.body,
                         !.ResponseSize = Len(r.body)]

executeHTTPRequest(url, r) ==
  IF r.kind = "transport"
  THEN [NewResult(url) EXCEPT !.ErrorBody = [kind |-> "error sending request", text |-> <<>>]]
  ELSE IF r.status = StatusOK
       THEN IF r.readErr
            THEN [NewResult(url) EXCEPT !.StatusCode = r.status,
                                        !.ResponseBodyReadError = "error reading response body"]
            ELSE [NewResult(url) EXCEPT !.StatusCode = r.status,
                                        !.ResponseBody = r.body,
                                        !.ResponseSize = Len(r.body)]
       ELSE IF r.readErr
            THEN [NewResult(url) EXCEPT !.StatusCode = r.status,
                                        !.ErrorBody = [kind |-> "error reading response body", text |-> <<>>]]
            ELSE [NewResult(url) EXCEPT !.StatusCode = r.status,
                                        !.ErrorBody = [kind |-> "body", text |-> r.body]]

(* ---------------------------------------------------------------------- *)
(* ExtractRaw: the content normalizer.  The go-car / go-unixfsnode calls   *)
(* are modelled by what they answer on the container format above.         *)
(* ---------------------------------------------------------------------- *)
Payload(b) == SubSeq(b, 3, Len(b))

(* blockstore.NewReadOnly: fails unless the bytes start with a CAR header. *)
NewReadOnlyOk(b) == Len(b) >= 1 /\ b[1] = 9
(* bs.Roots: fails on a truncated header. *)
RootsOk(b) == Len(b) >= 2
Roots(b) == IF b[2] = 0 THEN <<>> ELSE <<IF b[2] \in {1, 4} THEN "raw" ELSE "dag-pb">>
(* bs.Get / ls.Load of the root: fail when the block is not in the CAR. *)
RootBlockPresent(b) == b[2] \notin {4, 5}
(* file.NewUnixFSFileWithPreload, AsLargeBytes, io.Copy: fail when a child is missing. *)
UnixFSFileOk(b) == b[2] = 2

ExtractOk(bytes) == [panic |-> FALSE, err |-> FALSE, response |-> bytes]
ExtractErr == [panic |-> FALSE, err |-> TRUE, response |-> <<>>]
ExtractPanic == [panic |-> TRUE, err |-> FALSE, response |-> <<>>]

extractRoot(b) ==
  IF ~RootBlockPresent(b) THEN ExtractPanic
  ELSE IF ~UnixFSFileOk(b) THEN ExtractErr
  ELSE ExtractOk(Payload(b))

ExtractRaw(carBytes) ==
  IF ~NewReadOnlyOk(carBytes) THEN ExtractPanic
  ELSE IF ~RootsOk(carBytes) THEN ExtractPanic
  ELSE IF Roots(carBytes) = <<>> THEN ExtractPanic
  ELSE IF Roots(carBytes)[1] = "raw"
       THEN IF ~RootBlockPresent(carBytes) THEN ExtractPanic
            ELSE ExtractOk(Payload(carBytes))
       ELSE extractRoot(carBytes)

(* ---------------------------------------------------------------------- *)
(* The run's ResponseBytesMismatch, as NewRequestExecutor builds it.       *)
(* ---------------------------------------------------------------------- *)
NewResponseBytesMismatch ==
  [Mismatches       |-> [pair \in ContentPairs |-> EmptyMap],
   MismatchPaths    |-> [pair \in ContentPairs |-> <<>>],
   TotalReadSuccess |-> [l \in ReadLayers |-> 0],
   TotalReadError   |-> [l \in ReadLayers |-> 0],
   ReadErrors       |-> [l \in ReadLayers |-> EmptyMap],
   ReadErrorPaths   |-> [l \in ReadLayers |-> <<>>],
   TotalMatches     |-> [pair \in KuboPairs |-> 0]]

(* ---------------------------------------------------------------------- *)
(* The evaluation of one path in executeRequest, after wg.Wait, under      *)
(* re.mu.  It runs as a sequence of stages over st = [rbm, panic]: a stage *)
(* that dereferences a nil slot or whose ExtractRaw panics stops the       *)
(* evaluation there (the goroutine panics and the process dies).           *)
(* ---------------------------------------------------------------------- *)
NoPanic == ""

(* Mutant of BothReadOk: only the first layer of the pair is looked at. *)
FirstReadOk(rs, a, b) == rs[a].StatusCode = StatusOK /\ rs[a].ResponseBodyReadError = ""

(* Mutant of BothReadOk: the read errors are not looked at. *)
BothStatusOk(rs, a, b) == rs[a].StatusCode = StatusOK /\ rs[b].StatusCode = StatusOK

(* rs.<L>Result.StatusCode == http.StatusOK && len(ResponseBodyReadError) == 0, both sides *)
BothReadOk(rs, a, b) ==
  /\ rs[a].StatusCode = StatusOK /\ rs[b].StatusCode = StatusOK
  /\ rs[a].ResponseBodyReadError = "" /\ rs[b].ResponseBodyReadError = ""

(* Mutant of ErrIsNil: the error of ExtractRaw is not looked at. *)
ErrIgnored(ext) == TRUE

(* err == nil, after raw, err := ExtractRaw(...) *)
ErrIsNil(ext) == ~ext.err

(* Mutant of AddMismatch: the path is appended to the list, the map is     *)
(* left as it was.                                                         *)
AddMismatchListOnly(rbm, rs, path, pair) ==
  [rbm EXCEPT !.MismatchPaths[pair] = Append(@, path)]

(* Mutant of AddMismatch: the map and the list keep the last path only. *)
AddMismatchLastOnly(rbm, rs, path, pair) ==
  [rbm EXCEPT !.Mismatches[pair] = (path :> [l \in {First(pair), Second(pair)} |-> rs[l]]),
              !.MismatchPaths[pair] = <<path>>]

(* Mutant of PairResults: the entry is the whole Results of the path. *)
WholeResults(rs, a, b) == rs

(* The two-slot Results recorded for a pair. *)
PairResults(rs, a, b) == (a :> rs[a]) @@ (b :> rs[b])

AddMismatch(rbm, rs, path, pair) ==
  [rbm EXCEPT !.Mismatches[pair] = MapPut(@, path, PairResults(rs, First(pair), Second(pair))),
              !.MismatchPaths[pair] = Append(@, path)]

(* Mutant of ReadStage: a failed read of a 200 response counts as a read   *)
(* success as well.                                                        *)
ReadStageCountsBoth(st, rs, path, l) ==
  IF st.panic # NoPanic THEN st
  ELSE IF l \notin DOMAIN rs THEN [st EXCEPT !.panic = "nil pointer dereference"]
  ELSE IF rs[l].StatusCode = StatusOK
       THEN IF rs[l].ResponseBodyReadError = ""
            THEN [st EXCEPT !.rbm.TotalReadSuccess[l] = @ + 1]
            ELSE [st EXCEPT !.rbm.ReadErrors[l] = MapPut(@, path, rs[l]),
                            !.rbm.ReadErrorPaths[l] = Append(@, path),
                            !.rbm.TotalReadSuccess[l] = @ + 1,
                            !.rbm.TotalReadError[l] = @ + 1]
       ELSE st

(* lines 261-300: read counters of one layer *)
ReadStage(st, rs, path, l) ==
  IF st.panic # NoPanic THEN st
  ELSE IF l \notin DOMAIN rs THEN [st EXCEPT !.panic = "nil pointer dereference"]
  ELSE IF rs[l].StatusCode = StatusOK
       THEN IF rs[l].ResponseBodyReadError = ""
            THEN [st EXCEPT !.rbm.TotalReadSuccess[l] = @ + 1]
            ELSE [st EXCEPT !.rbm.ReadErrors[l] = MapPut(@, path, rs[l]),
                            !.rbm.ReadErrorPaths[l] = Append(@, path),
                            !.rbm.TotalReadError[l] = @ + 1]
       ELSE st

(* Mutant of NormalizeSecond: the CAR body is compared as it was read. *)
SecondAsIs(rbs, pair) == ExtractOk(rbs[Second(pair)])

(* raw, err := ExtractRaw(<second>Rbs) *)
NormalizeSecond(rbs, pair) == ExtractRaw(rbs[Second(pair)])

(* Mutant of KuboCarStage: a path whose bytes differ is counted as a match *)
(* as well.                                                                *)
KuboCarStageCountsAll(st, rs, path, pair, rbs, needRaw) ==
  IF st.panic # NoPanic THEN st
  ELSE IF {First(pair), Second(pair)} \ DOMAIN rs # {}
       THEN [st EXCEPT !.panic = "nil pointer dereference"]
  ELSE IF BothReadOk(rs, First(pair), Second(pair))
       THEN LET ext == NormalizeSecond(rbs, pair)
            IN  IF ext.panic THEN [st EXCEPT !.panic = "ExtractRaw"]
                ELSE IF ErrIsNil(ext) /\ (needRaw => Len(ext.response) > 0)
                     THEN IF rbs[First(pair)] # ext.response
                          THEN [st EXCEPT !.rbm = [AddMismatch(@, rs, path, pair)
                                                     EXCEPT !.TotalMatches[pair] = @ + 1]]
                          ELSE [st EXCEPT !.rbm.TotalMatches[pair] = @ + 1]
                     ELSE st
       ELSE st

(* lines 304-350: Kubo against a CAR layer; needRaw is the extra           *)
(* len(raw) > 0 of the Kubo - L1 Shim comparison (line 323).               *)
KuboCarStage(st, rs, path, pair, rbs, needRaw) ==
  IF st.panic # NoPanic THEN st
  ELSE IF {First(pair), Second(pair)} \ DOMAIN rs # {}
       THEN [st EXCEPT !.panic = "nil pointer dereference"]
  ELSE IF BothReadOk(rs, First(pair), Second(pair))
       THEN LET ext == NormalizeSecond(rbs, pair)
            IN  IF ext.panic THEN [st EXCEPT !.panic = "ExtractRaw"]
                ELSE IF ErrIsNil(ext) /\ (needRaw => Len(ext.response) > 0)
                     THEN IF rbs[First(pair)] # ext.response
                          THEN [st EXCEPT !.rbm = AddMismatch(@, rs, path, pair)]
                          ELSE [st EXCEPT !.rbm.TotalMatches[pair] = @ + 1]
                     ELSE st
       ELSE st

(* lines 352-386: the bodies compared as they were read; only the Kubo -   *)
(* Bifrost comparison counts matches.                                      *)
RawStage(st, rs, path, pair, rbs) ==
  IF st.panic # NoPanic THEN st
  ELSE IF {First(pair), Second(pair)} \ DOMAIN rs # {}
       THEN [st EXCEPT !.panic = "nil pointer dereference"]
  ELSE IF BothReadOk(rs, First(pair), Second(pair))
       THEN IF rbs[First(pair)] # rbs[Second(pair)]
            THEN [st EXCEPT !.rbm = AddMismatch(@, rs, path, pair)]
            ELSE IF pair \in KuboPairs
                 THEN [st EXCEPT !.rbm.TotalMatches[pair] = @ + 1]
                 ELSE st
       ELSE st

(* executeRequest lines 255-387, on the path's Results rs and the bodies   *)
(* rbs the layer goroutines left in the task's locals.                     *)
evaluate(rbm, rs, path, rbs) ==
  LET s0  == [rbm |-> rbm, panic |-> NoPanic]
      s1  == ReadStage(s0, rs, path, "lassie")
      s2  == ReadStage(s1, rs, path, "l1shim")
      s3  == ReadStage(s2, rs, path, "l1nginx")
      s4  == ReadStage(s3, rs, path, "bifrost")
      s5  == KuboCarStage(s4, rs, path, "KuboLassie", rbs, FALSE)
      s6  == KuboCarStage(s5, rs, path, "KuboL1Shim", rbs, TRUE)
      s7  == KuboCarStage(s6, rs, path, "KuboL1Nginx", rbs, FALSE)
      s8  == RawStage(s7, rs, path, "KuboBifrost", rbs)
      s9  == RawStage(s8, rs, path, "LassieShim", rbs)
      s10 == RawStage(s9, rs, path, "ShimNginx", rbs)
  IN  s10

(* ---------------------------------------------------------------------- *)
(* WriteMismatchesToFile, lines 483-566: the status mismatches and the     *)
(* per-layer counts, accumulated over re.results in map iteration order.   *)
(* ---------------------------------------------------------------------- *)
NewStatusReport ==
  [Mismatch      |-> [pair \in StatusPairs |-> EmptyMap],
   MismatchPaths |-> [pair \in StatusPairs |-> <<>>],
   result2xx     |-> [l \in Layers |-> 0],
   panic         |-> NoPanic]

(* Mutant of ReadSucceeded: the status of the layer is not looked at. *)
NoReadError(r) == r.ResponseBodyReadError = ""

(* Mutant of ReadSucceeded: the read error of the layer is not looked at. *)
StatusSucceeded(r) == r.StatusCode = StatusOK

(* results.<L>Result.StatusCode == http.StatusOK && len(ResponseBodyReadError) == 0 *)
ReadSucceeded(r) == r.StatusCode = StatusOK /\ r.ResponseBodyReadError = ""

(* Mutant of SecondFailed: the read error of the second layer is not looked at. *)
SecondFailedByStatus(r) == r.StatusCode # StatusOK

(* the inner condition: the second layer is not a 200 with a clean read *)
SecondFailed(r) == r.StatusCode # StatusOK \/ r.ResponseBodyReadError # ""

(* one "if first ok { count; if second not ok { record } }" block *)
StatusBlock(acc, rs, path, l, pairs) ==
  IF acc.panic # NoPanic THEN acc
  ELSE IF ({l} \cup {Second(pair) : pair \in pairs}) \ DOMAIN rs # {}
       THEN [acc EXCEPT !.panic = "nil pointer dereference"]
  ELSE IF ReadSucceeded(rs[l])
       THEN LET hit == {pair \in pairs : SecondFailed(rs[Second(pair)])}
            IN  [acc EXCEPT
                  !.result2xx[l] = @ + 1,
                  !.Mismatch = [pair \in StatusPairs |->
                                  IF pair \in hit
                                  THEN MapPut(@[pair], path, PairResults(rs, First(pair), Second(pair)))
                                  ELSE @[pair]],
                  !.MismatchPaths = [pair \in StatusPairs |->
                                  IF pair \in hit THEN Append(@[pair], path) ELSE @[pair]]]
       ELSE acc

(* the body of "for path, results := range res" *)
StatusOfPath(acc, rs, path) ==
  LET a1 == StatusBlock(acc, rs, path, "kubogw", {"KuboLassie", "KuboBifrost"})
      a2 == StatusBlock(a1, rs, path, "lassie", {"LassieShim"})
      a3 == StatusBlock(a2, rs, path, "l1shim", {"ShimNginx"})
      a4 == StatusBlock(a3, rs, path, "l1nginx", {"NginxBifrost"})
      a5 == StatusBlock(a4, rs, path, "bifrost", {})
  IN  a5

RECURSIVE StatusLoop(_, _, _)
StatusLoop(acc, res, order) ==
  IF order = <<>> THEN acc
  ELSE StatusLoop(StatusOfPath(acc, res[Head(order)], Head(order)), res, Tail(order))

(* The orders in which a range over a map with key set S may visit it. *)
Orders(S) == {o \in [1..Cardinality(S) -> S] : \A i, j \in 1..Cardinality(S) : o[i] = o[j] => i = j}

(* ---------------------------------------------------------------------- *)
(* State.                                                                  *)
(* ---------------------------------------------------------------------- *)
VARIABLES
  reqs,          \* re.reqs: the paths of the request set
  resp,          \* what each (path, layer) GET will answer
  mainpc,        \* main goroutine: "start", "exit", "loop" (in Execute), "executed",
                 \* "results_written", "cid.contact" (in the retry loop of Check), "reported"
  pathpc,        \* path task: "idle", "run", "eval", "evaluated", "released"
  sub,           \* layer goroutine of a path: "idle", "call", "done"
  sem,           \* number of elements in the channel sem
  wg,            \* counter of Execute's WaitGroup
  mu,            \* re.mu: 0 when free, else the path whose task holds it
  results,       \* re.results
  rbs,           \* the body locals of each path task (kuboGWRbs, lassieRbs, ...)
  responseReads, \* re.responseReads
  crashed,       \* reason of the unrecovered panic that ended the process, or ""
  resultsFile,   \* results.json as written
  report,        \* what WriteMismatchesToFile computed and wrote
  calls,         \* number of GETs issued per (path, layer)
  writes,        \* number of times each slot of re.results was assigned
  evals,         \* number of times the evaluation of each path ran
  config,        \* the flags, config.toml and the replay log main was started with
  cidContact     \* whether GETs to cid.contact are answered during the run: "up", "down"

vars == <<reqs, resp, mainpc, pathpc, sub, sem, wg, mu, results, rbs, responseReads,
          crashed, resultsFile, report, calls, writes, evals, config, cidContact>>

NotWritten == [written |-> FALSE]

(* The hosts of config.toml. *)
Hosts == {"lassie", "l1shim", "l1nginx", "bifrost"}

(* A configuration main accepts: the three required flags, four parsable   *)
(* IPs with ports in range, and a replay log of n unique /ipfs/ paths.     *)
ValidConfig(c, n) ==
  [count |-> c, fileName |-> "replay.log", nRuns |-> 1, readResponse |-> TRUE,
   hosts |-> [h \in Hosts |-> [ipParses |-> TRUE, port |-> 443]],
   log |-> [p \in 1..n |-> "/ipfs/"]]

(* The state at a point of main: pc is the position of main, all the paths *)
(* of the replay log, rq the request set handed to NewRequestExecutor.     *)
InitRun(pc, all, rq, rp, cfg, cc) ==
  /\ reqs = rq
  /\ resp = rp
  /\ mainpc = pc
  /\ pathpc = [p \in all |-> "idle"]
  /\ sub = [p \in all |-> [l \in Layers |-> "idle"]]
  /\ sem = 0
  /\ wg = 0
  /\ mu = 0
  /\ results = EmptyMap
  /\ rbs = [p \in all |-> [l \in Layers |-> <<>>]]
  /\ responseReads = NewResponseBytesMismatch
  /\ crashed = NoPanic
  /\ resultsFile = NotWritten
  /\ report = NotWritten
  /\ calls = [p \in all |-> [l \in Layers |-> 0]]
  /\ writes = [p \in all |-> [l \in Layers |-> 0]]
  /\ evals = [p \in all |-> 0]
  /\ config = cfg
  /\ cidContact = cc

(* The state when Execute is entered on the request set rq, cid.contact    *)
(* answering.                                                              *)
InitState(rq, rp) ==
  InitRun("loop", rq, rq, rp, ValidConfig(Cardinality(rq), Cardinality(rq)), "up")

(* The replayed servers of Spec: one fixed row of answers per path.        *)
MixedRow ==
  [kubogw  |-> Http(StatusOK, FALSE, <<1, 2>>),
   lassie  |-> Http(StatusOK, FALSE, <<9, 2, 1, 3>>),
   l1shim  |-> Http(StatusOK, TRUE, <<>>),
   l1nginx |-> Http(502, FALSE, <<7>>),
   bifrost |-> Transport]

VariantRow ==
  [kubogw  |-> Transport,
   lassie  |-> Http(StatusOK, FALSE, <<9, 2, 1, 2>>),
   l1shim  |-> Http(StatusOK, FALSE, <<9, 1, 1, 2>>),
   l1nginx |-> Http(StatusOK, FALSE, <<9, 3, 1, 2>>),
   bifrost |-> Http(206, FALSE, <<1>>)]

ReplayRow(p) ==
  IF p % 3 = 1 THEN [l \in Layers |-> DefaultResponse(l)]
  ELSE IF p % 3 = 2 THEN MixedRow
  ELSE VariantRow

(* The rows of SpecEval: every choice of at most MaxOdd layers answering   *)
(* anything of their alphabet, the others the default.                     *)
OddRows ==
  UNION {
    { [l \in Layers |-> IF l \in S THEN f[l] ELSE DefaultResponse(l)] :
        f \in {g \in [S -> UNION {Responses(l) : l \in S}] : \A l \in S : g[l] \in Responses(l)} }
    : S \in {T \in SUBSET Layers : Cardinality(T) <= MaxOdd} }

Init == InitState(Paths, [p \in Paths |-> ReplayRow(p)])

(* The request sets of SpecReplay: ReplayPaths paths, each answered by one *)
(* of the two rows with failures.                                          *)
InitReplay ==
  \E f \in [1..ReplayPaths -> {MixedRow, VariantRow}] : InitState(1..ReplayPaths, f)

InitEval == \E row \in OddRows : InitState({1}, [p \in {1} |-> row])

(* What a layer answers when it does not return status 200. *)
FailedResponses(l) == {r \in Responses(l) : r.kind = "transport" \/ r.status # StatusOK}
(* One answer of each kind: no response, a 2xx other than 200, an error status. *)
FailedKinds == {Transport, Http(206, FALSE, <<1>>), Http(502, FALSE, <<7>>)}

(* The request sets of SpecFailed: one path on which no layer returns 200, *)
(* alone with any failed answer per layer, or next to a path answered by   *)
(* MixedRow with one failed answer of each kind.                           *)
InitFailed ==
  \/ \E row \in [Layers -> UNION {FailedResponses(l) : l \in Layers}] :
       /\ \A l \in Layers : row[l] \in FailedResponses(l)
       /\ InitState({1}, [p \in {1} |-> row])
  \/ \E row \in [Layers -> FailedKinds] :
       InitState({1, 2}, [p \in {1, 2} |-> IF p = 1 THEN row ELSE MixedRow])

(* ---------------------------------------------------------------------- *)
(* Execute.                                                                *)
(* ---------------------------------------------------------------------- *)
Running == crashed = NoPanic

(* Mutant of SemHasRoom: the send on sem never blocks. *)
SemNeverBlocks == TRUE

(* sem <- struct{}{} can proceed *)
SemHasRoom == sem < defaultConcurrency

(* the range over re.reqs has not reached this path yet *)
NotStarted(p) == pathpc[p] = "idle"

(* One iteration of the loop of Execute: wg.Add(1), sem <- struct{}{},     *)
(* go executeRequest(path), which does wg.Add(5) and starts the five layer *)
(* goroutines; each issues its GET.                                        *)
StartPath(p) ==
  /\ Running
  /\ mainpc = "loop"
  /\ NotStarted(p)
  /\ SemHasRoom
  /\ sem' = sem + 1
  /\ wg' = wg + 1
  /\ pathpc' = [pathpc EXCEPT ![p] = "run"]
  /\ sub' = [sub EXCEPT ![p] = [l \in Layers |-> "call"]]
  /\ calls' = [calls EXCEPT ![p] = [l \in Layers |-> @[l] + 1]]
  /\ UNCHANGED <<reqs, resp, mainpc, mu, results, rbs, responseReads, crashed,
                 resultsFile, report, writes, evals,
                 config, cidContact>>

(* Mutant of MuFree: Lock() does not wait for the holder. *)
MuNeverBlocks == TRUE

(* re.mu.Lock() can proceed *)
MuFree == mu = 0

(* Mutant of Slot: the "l1nginx" case assigns the L1 Shim slot. *)
SlotMixedUp(component) == IF component = "l1nginx" THEN "l1shim" ELSE component

(* the slot of Results that addResultF's switch assigns for a component *)
Slot(component) == component

(* addResultF(result, component), lines 167-188 *)
addResultF(res, path, result, component) ==
  LET rs == IF path \in DOMAIN res THEN res[path] ELSE EmptyMap
  IN  MapPut(res, path, MapPut(rs, Slot(component), result))

(* Mutant of CallPending: a transport failure of one layer cancels the     *)
(* calls of the path that have not returned yet.                           *)
CallPendingUnlessSiblingFailed(p, l) ==
  /\ sub[p][l] = "call"
  /\ \A k \in Layers \ {l} : sub[p][k] = "done" => results[p][k].StatusCode # 0

(* the GET of a layer goroutine was issued and can return: the five        *)
(* goroutines share nothing but the client (no context, no cancellation)   *)
CallPending(p, l) == sub[p][l] = "call"

(* Mutant of BodyCleared: the Result is stored with the body it read. *)
BodyKept(result) == result

(* result.ResponseBody = nil, before addResultF *)
BodyCleared(result) == [result EXCEPT !.ResponseBody = <<>>]

(* A layer goroutine, lines 194-250: the GET returns, the body goes to the *)
(* task's local, the Result with its body cleared goes to the store under  *)
(* re.mu (Lock, assignment, Unlock), then wg.Done().                       *)
LayerDone(p, l) ==
  /\ Running
  /\ CallPending(p, l)
  /\ MuFree
  /\ LET result == executeHTTPRequest(<<p, l>>, resp[p][l])
     IN  /\ rbs' = [rbs EXCEPT ![p][l] = result.ResponseBody]
         /\ results' = addResultF(results, p, BodyCleared(result), l)
  /\ writes' = [writes EXCEPT ![p][Slot(l)] = @ + 1]
  /\ sub' = [sub EXCEPT ![p][l] = "done"]
  /\ UNCHANGED <<reqs, resp, mainpc, pathpc, sem, wg, mu, responseReads, crashed,
                 resultsFile, report, calls, evals,
                 config, cidContact>>

(* Mutant of AllLayersDone: the join does not count the L1 Nginx goroutine. *)
AllLayersDoneButNginx(p) == \A l \in Layers \ {"l1nginx"} : sub[p][l] = "done"

(* wg.Wait() of executeRequest (line 252) returns: all five wg.Done() ran *)
AllLayersDone(p) == \A l \in Layers : sub[p][l] = "done"

(* lines 252-256: the join, then re.mu.Lock() *)
EvalLock(p) ==
  /\ Running
  /\ pathpc[p] = "run"
  /\ AllLayersDone(p)
  /\ MuFree
  /\ mu' = p
  /\ pathpc' = [pathpc EXCEPT ![p] = "eval"]
  /\ UNCHANGED <<reqs, resp, mainpc, sub, sem, wg, results, rbs, responseReads, crashed,
                 resultsFile, report, calls, writes, evals,
                 config, cidContact>>

(* lines 258-387: the evaluation and the deferred re.mu.Unlock().  A panic *)
(* in it is not recovered: the process ends.                               *)
Evaluate(p) ==
  /\ Running
  /\ pathpc[p] = "eval"
  /\ LET rs == IF p \in DOMAIN results THEN results[p] ELSE EmptyMap
         st == evaluate(responseReads, rs, p, rbs[p])
     IN  /\ responseReads' = st.rbm
         /\ crashed' = st.panic
  /\ mu' = 0
  /\ pathpc' = [pathpc EXCEPT ![p] = "evaluated"]
  /\ evals' = [evals EXCEPT ![p] = @ + 1]
  /\ UNCHANGED <<reqs, resp, mainpc, sub, sem, wg, results, rbs, resultsFile, report,
                 calls, writes,
                 config, cidContact>>

(* Mutant of TaskFinished: the slot is given back as soon as the task has  *)
(* started its layer goroutines.                                           *)
TaskStarted(p) == pathpc[p] \in {"run", "evaluated"}

(* executeRequest has returned, so the deferred function of the path       *)
(* goroutine runs                                                          *)
TaskFinished(p) == pathpc[p] = "evaluated"

(* the deferred function of the path goroutine, lines 145-148: <-sem, wg.Done() *)
Release(p) ==
  /\ Running
  /\ TaskFinished(p)
  /\ sem' = sem - 1
  /\ wg' = wg - 1
  /\ pathpc' = [pathpc EXCEPT ![p] = "released"]
  /\ UNCHANGED <<reqs, resp, mainpc, sub, mu, results, rbs, responseReads, crashed,
                 resultsFile, report, calls, writes, evals,
                 config, cidContact>>

(* Mutant of WaitGroupDone: Execute does not wait for the path tasks. *)
WaitGroupNeverWaits == TRUE

(* wg.Wait() of Execute (line 152) returns *)
WaitGroupDone == wg = 0

(* The loop is over and wg.Wait() returns: Execute returns. *)
ExecuteReturn ==
  /\ Running
  /\ mainpc = "loop"
  /\ \A p \in reqs : ~NotStarted(p)
  /\ WaitGroupDone
  /\ mainpc' = "executed"
  /\ UNCHANGED <<reqs, resp, pathpc, sub, sem, wg, mu, results, rbs, responseReads, crashed,
                 resultsFile, report, calls, writes, evals,
                 config, cidContact>>

(* WriteResultsToFile, lines 426-447, under re.mu *)
WriteResultsToFile ==
  /\ Running
  /\ mainpc = "executed"
  /\ MuFree
  /\ resultsFile' = [written |-> TRUE, json |-> results]
  /\ mainpc' = "results_written"
  /\ UNCHANGED <<reqs, resp, pathpc, sub, sem, wg, mu, results, rbs, responseReads, crashed,
                 report, calls, writes, evals,
                 config, cidContact>>

(* ---------------------------------------------------------------------- *)
(* The artifacts of WriteMismatchesToFile.  A file name is the path under  *)
(* results/results-<n>/.                                                   *)
(* ---------------------------------------------------------------------- *)
(* lines 568-577: the status-mismatch maps *)
StatusFile ==
  [KuboLassie   |-> "kubo-lassie-mismatch.json",
   LassieShim   |-> "lassie-shim-mismatch.json",
   ShimNginx    |-> "shim-nginx-mismatch.json",
   NginxBifrost |-> "nginx-bifrost-mismatch.json",
   KuboBifrost  |-> "kubo-bifrost-mismatch.json"]
(* lines 711-716: the status-mismatch path lists *)
StatusPathsFile ==
  [KuboLassie   |-> "kubo-lassie-mismatch-paths.json",
   LassieShim   |-> "lassie-shim-mismatch-paths.json",
   ShimNginx    |-> "shim-nginx-mismatch-paths.json",
   NginxBifrost |-> "nginx-bifrost-mismatch-paths.json",
   KuboBifrost  |-> "kubo-bifrost-mismatch-paths.json"]
(* lines 587-617, 627-641: the content-mismatch path lists *)
ContentPathsFile ==
  [KuboLassie  |-> "response_reads/kubo-lassie-mismatch-paths.json",
   KuboBifrost |-> "response_reads/kubo-bifrost-mismatch-paths.json",
   KuboL1Nginx |-> "response_reads/kubo-l1nginx-mismatch-paths.json",
   KuboL1Shim  |-> "response_reads/kubo-l1shim-mismatch-paths.json",
   LassieShim  |-> "response_reads/lassie-shim-mismatch-paths.json",
   ShimNginx   |-> "response_reads/shim-nginx-mismatch-paths.json"]
(* lines 619-625, 643-657: the content-mismatch maps that get a file *)
ContentFile ==
  [KuboLassie |-> "response_reads/kubo-lassie-mismatches.json",
   LassieShim |-> "response_reads/lassie-shim-mismatches.json",
   ShimNginx  |-> "response_reads/shim-nginx-mismatches.json"]
(* lines 659-681 *)
ReadErrorPathsFile ==
  [lassie  |-> "response_reads/lassie-2xx-response-read-error-paths.json",
   l1shim  |-> "response_reads/shim-2xx-response-read-error-paths.json",
   l1nginx |-> "response_reads/nginx-2xx-response-read-error-paths.json"]
(* lines 683-712 *)
ReadErrorsFile ==
  [lassie  |-> "response_reads/lassie-2xx-response-read-errors.json",
   l1shim  |-> "response_reads/shim-2xx-response-read-errors.json",
   l1nginx |-> "response_reads/nginx-2xx-response-read-errors.json",
   bifrost |-> "response_reads/bifrost-2xx-response-read-errors.json"]
ResponseReadsFile == "response_reads/response-reads.json"
TopLevelFile == "top-level-metrics.json"

(* the files named by names, each holding the content of its key *)
FilesOf(names, contents) ==
  [f \in {names[k] : k \in DOMAIN names} |->
     contents[CHOOSE k \in DOMAIN names : names[k] = f]]

(* lines 568-718: everything written before the summary is printed *)
ReportFiles(acc, rbm) ==
  FilesOf(StatusFile, acc.Mismatch) @@ (ResponseReadsFile :> rbm)
    @@ FilesOf(ContentPathsFile, rbm.MismatchPaths) @@ FilesOf(ContentFile, rbm.Mismatches)
    @@ FilesOf(ReadErrorPathsFile, rbm.ReadErrorPaths) @@ FilesOf(ReadErrorsFile, rbm.ReadErrors)
    @@ FilesOf(StatusPathsFile, acc.MismatchPaths)

(* lines 777-798: the struct marshalled into top-level-metrics.json *)
TopLevel(acc) ==
  [Kubo2XX    |-> acc.result2xx["kubogw"],
   Lassie2XX  |-> acc.result2xx["lassie"],
   Shim2XX    |-> acc.result2xx["l1shim"],
   Nginx2XX   |-> acc.result2xx["l1nginx"],
   Bifrost2xx |-> acc.result2xx["bifrost"],
   KuboLassieMismatch   |-> Cardinality(DOMAIN acc.Mismatch["KuboLassie"]),
   LassieShimMismatch   |-> Cardinality(DOMAIN acc.Mismatch["LassieShim"]),
   ShimNginxMismatch    |-> Cardinality(DOMAIN acc.Mismatch["ShimNginx"]),
   NginxBifrostMismatch |-> Cardinality(DOMAIN acc.Mismatch["NginxBifrost"])]

(* ParseCidFromPath (utils.go): panics unless the path has "/ipfs/" in it. *)
(* A path of the model is the index of its line in the replay log, whose   *)
(* text starts with config.log[path].                                      *)
ParseCidFromPath(path) ==
  IF config.log[path] = "/ipfs/" THEN [panic |-> FALSE, cid |-> path]
  ELSE [panic |-> TRUE, cid |-> 0]

(* the path lists handed to NewCidContactChecker(...).Check(), lines       *)
(* 729-773, in the order of the calls                                      *)
CheckedPaths(acc, rbm) ==
  acc.MismatchPaths["KuboLassie"] \o acc.MismatchPaths["LassieShim"]
    \o acc.MismatchPaths["ShimNginx"] \o acc.MismatchPaths["NginxBifrost"]
    \o acc.MismatchPaths["KuboBifrost"]
    \o rbm.ReadErrorPaths["lassie"] \o rbm.ReadErrorPaths["l1shim"]
    \o rbm.ReadErrorPaths["l1nginx"] \o rbm.ReadErrorPaths["bifrost"]

(* CidContactChecker.Check over the paths: "done" when every path was      *)
(* looked up, "invalid path" when ParseCidFromPath panics, "retrying" when *)
(* GetCidContactResponse keeps failing: the for loop sleeps and calls      *)
(* again without a limit.                                                  *)
RECURSIVE Check(_)
Check(mismatches) ==
  IF mismatches = <<>> THEN "done"
  ELSE IF ParseCidFromPath(Head(mismatches)).panic THEN "invalid path"
  ELSE IF cidContact = "down" THEN "retrying"
  ELSE Check(Tail(mismatches))

(* WriteMismatchesToFile, lines 449-810, under re.mu: the status loop, the *)
(* files, the cid.contact lookups of the summary, then the top-level       *)
(* metrics file.  A panic ends the process; while cid.contact does not     *)
(* answer the function stays in the retry loop of Check.                   *)
WriteMismatchesToFile ==
  /\ Running
  /\ mainpc = "results_written"
  /\ MuFree
  /\ \E order \in Orders(DOMAIN results) :
       LET acc == StatusLoop(NewStatusReport, results, order)
           files == ReportFiles(acc, responseReads)
           chk == IF acc.panic # NoPanic THEN acc.panic
                  ELSE Check(CheckedPaths(acc, responseReads))
       IN  /\ report' = [written |-> chk = "done", status |-> acc,
                         files |-> IF acc.panic # NoPanic THEN EmptyMap
                                   ELSE IF chk = "done" THEN files @@ (TopLevelFile :> TopLevel(acc))
                                   ELSE files]
           /\ crashed' = IF chk \in {"done", "retrying"} THEN NoPanic ELSE chk
           /\ mainpc' = IF chk = "retrying" THEN "cid.contact" ELSE "reported"
  /\ UNCHANGED <<reqs, resp, pathpc, sub, sem, wg, mu, results, rbs, responseReads,
                 resultsFile, calls, writes, evals,
                 config, cidContact>>

Next ==
  \/ \E p \in reqs : StartPath(p)
  \/ \E p \in reqs : \E l \in Layers : LayerDone(p, l)
  \/ \E p \in reqs : EvalLock(p)
  \/ \E p \in reqs : Evaluate(p)
  \/ \E p \in reqs : Release(p)
  \/ ExecuteReturn
  \/ WriteResultsToFile
  \/ WriteMismatchesToFile

Spec == Init /\ [][Next]_vars

SpecEval == InitEval /\ [][Next]_vars

SpecFailed == InitFailed /\ [][Next]_vars
SpecReplay == InitReplay /\ [][Next]_vars

(* The Go scheduler runs every goroutine that can run, and every GET       *)
(* returns (the client has a Timeout): a step that stays possible is       *)
(* eventually taken.                                                       *)
Fairness == WF_vars(Next)

FairSpec == Spec /\ Fairness

FairSpecEval == SpecEval /\ Fairness

(* ---------------------------------------------------------------------- *)
(* The flag-controlled revision of the executor (src/unnamed/part_001):    *)
(* Kubo is called in status-only mode only, Bifrost is not called, bodies  *)
(* are read and compared only with the read-response flag on.              *)
(* ---------------------------------------------------------------------- *)
(* Mutant of ReadsBody: the body of every 200 response is read. *)
ReadsBodyOn200(isKuboGW, readResponse, status) == status = StatusOK

(* !isKuboGW && re.readResponse && resp.StatusCode == http.StatusOK *)
ReadsBody(isKuboGW, readResponse, status) ==
  ~isKuboGW /\ readResponse /\ status = StatusOK

(* executeHTTPRequest(url, isKuboGW), part_001 lines 270-305 *)
executeHTTPRequestRR(url, r, isKuboGW, readResponse) ==
  IF r.kind = "transport"
  THEN [NewResult(url) EXCEPT !.ErrorBody = [kind |-> "error sending request", text |-> <<>>]]
  ELSE IF ReadsBody(isKuboGW, readResponse, r.status) /\ r.readErr
       THEN [NewResult(url) EXCEPT !.StatusCode = r.status,
                                   !.ResponseBodyReadError = "error reading response body"]
  ELSE LET read == IF ReadsBody(isKuboGW, readResponse, r.status)
                   THEN [NewResult(url) EXCEPT !.StatusCode = r.status,
                                               !.ResponseBody = r.body,
                                               !.ResponseSize = Len(r.body)]
                   ELSE [NewResult(url) EXCEPT !.StatusCode = r.status]
       IN  IF r.status # StatusOK
           THEN IF r.readErr
                THEN [read EXCEPT !.ErrorBody = [kind |-> "error reading response body", text |-> <<>>]]
                ELSE [read EXCEPT !.ErrorBody = [kind |-> "body", text |-> r.body]]
           ELSE read

(* part_001 lines 224-250: the read counters of one layer (no map, no list) *)
ReadStageRR(st, rs, l) ==
  IF st.panic # NoPanic THEN st
  ELSE IF l \notin DOMAIN rs THEN [st EXCEPT !.panic = "nil pointer dereference"]
  ELSE IF rs[l].StatusCode = StatusOK
  THEN IF rs[l].ResponseBodyReadError = ""
       THEN [st EXCEPT !.rbm.TotalReadSuccess[l] = @ + 1]
       ELSE [st EXCEPT !.rbm.TotalReadError[l] = @ + 1]
  ELSE st

(* part_001 lines 219-267: the block under "if re.readResponse" *)
evaluateRR(rbm, rs, path, bodies) ==
  LET s0 == [rbm |-> rbm, panic |-> NoPanic]
      s1 == ReadStageRR(s0, rs, "lassie")
      s2 == ReadStageRR(s1, rs, "l1shim")
      s3 == ReadStageRR(s2, rs, "l1nginx")
      s4 == RawStage(s3, rs, path, "LassieShim", bodies)
      s5 == RawStage(s4, rs, path, "ShimNginx", bodies)
  IN  s5

(* the layer goroutines a path task starts: Kubo under "if !re.readResponse" *)
LayersRR == IF config.readResponse THEN CarLayers ELSE CarLayers \cup {"kubogw"}

(* what the path task adds to its WaitGroup: wg.Add(3), and wg.Add(1)      *)
(* under "if !re.readResponse"                                             *)
JoinCountRR == 3 + (IF ~config.readResponse THEN 1 ELSE 0)

(* one iteration of the loop of Execute, part_001 lines 95-118, and the    *)
(* start of the layer goroutines of executeRequest                         *)
StartPathRR(p) ==
  /\ Running
  /\ mainpc = "loop"
  /\ NotStarted(p)
  /\ SemHasRoom
  /\ sem' = sem + 1
  /\ wg' = wg + 1
  /\ pathpc' = [pathpc EXCEPT ![p] = "run"]
  /\ sub' = [sub EXCEPT ![p] = [l \in Layers |-> IF l \in LayersRR THEN "call" ELSE "idle"]]
  /\ calls' = [calls EXCEPT ![p] = [l \in Layers |-> IF l \in LayersRR THEN @[l] + 1 ELSE @[l]]]
  /\ UNCHANGED <<reqs, resp, mainpc, mu, results, rbs, responseReads, crashed,
                 resultsFile, report, writes, evals, config, cidContact>>

(* a layer goroutine, part_001 lines 153-199 *)
LayerDoneRR(p, l) ==
  /\ Running
  /\ CallPending(p, l)
  /\ MuFree
  /\ LET result == executeHTTPRequestRR(<<p, l>>, resp[p][l], l = "kubogw", config.readResponse)
     IN  /\ rbs' = [rbs EXCEPT ![p][l] = result.ResponseBody]
         /\ results' = addResultF(results, p, BodyCleared(result), l)
  /\ writes' = [writes EXCEPT ![p][Slot(l)] = @ + 1]
  /\ sub' = [sub EXCEPT ![p][l] = "done"]
  /\ UNCHANGED <<reqs, resp, mainpc, pathpc, sem, wg, mu, responseReads, crashed,
                 resultsFile, report, calls, evals, config, cidContact>>

(* part_001 lines 201-267: wg.Wait() returns, and with the flag on the     *)
(* evaluation runs under re.mu                                             *)
JoinRR(p) ==
  /\ Running
  /\ pathpc[p] = "run"
  /\ Cardinality({l \in Layers : sub[p][l] = "done"}) = JoinCountRR
  /\ IF config.readResponse
     THEN /\ MuFree
          /\ responseReads' = evaluateRR(responseReads, results[p], p, rbs[p]).rbm
          /\ crashed' = evaluateRR(responseReads, results[p], p, rbs[p]).panic
          /\ evals' = [evals EXCEPT ![p] = @ + 1]
     ELSE UNCHANGED <<responseReads, crashed, evals>>
  /\ pathpc' = [pathpc EXCEPT ![p] = "evaluated"]
  /\ UNCHANGED <<reqs, resp, mainpc, sub, sem, wg, mu, results, rbs,
                 resultsFile, report, calls, writes, config, cidContact>>

(* Mutant of ReadsKuboSlot: the Kubo slot is read in both modes. *)
ReadsKuboSlotAlways(readResponse) == TRUE

(* "if !re.readResponse" around every read of results.KuboGWResult in      *)
(* WriteMismatchesToFile, part_001 lines 386 and 404                       *)
ReadsKuboSlot(readResponse) == ~readResponse

(* one "if first is 200 and second is not { record }" block, lines 404-435 *)
StatusBlockRR(acc, rs, path, pair) ==
  IF acc.panic # NoPanic THEN acc
  ELSE IF {First(pair), Second(pair)} \ DOMAIN rs # {}
       THEN [acc EXCEPT !.panic = "nil pointer dereference"]
  ELSE IF rs[First(pair)].StatusCode = StatusOK /\ rs[Second(pair)].StatusCode # StatusOK
       THEN [acc EXCEPT
              !.Mismatch[pair] = MapPut(@, path, PairResults(rs, First(pair), Second(pair))),
              !.MismatchPaths[pair] = Append(@, path)]
       ELSE acc

(* one "if results.<L>Result.StatusCode == http.StatusOK { result2xx.<l>++ }" *)
Count2xxRR(acc, rs, l) ==
  IF acc.panic # NoPanic THEN acc
  ELSE IF l \notin DOMAIN rs THEN [acc EXCEPT !.panic = "nil pointer dereference"]
  ELSE IF rs[l].StatusCode = StatusOK THEN [acc EXCEPT !.result2xx[l] = @ + 1]
  ELSE acc

(* the body of "for path, results := range res", part_001 lines 383-436 *)
StatusOfPathRR(acc, rs, path, readResponse) ==
  LET a1 == IF ReadsKuboSlot(readResponse) THEN Count2xxRR(acc, rs, "kubogw") ELSE acc
      a2 == Count2xxRR(a1, rs, "lassie")
      a3 == Count2xxRR(a2, rs, "l1shim")
      a4 == Count2xxRR(a3, rs, "l1nginx")
      a5 == IF ReadsKuboSlot(readResponse) THEN StatusBlockRR(a4, rs, path, "KuboLassie") ELSE a4
      a6 == StatusBlockRR(a5, rs, path, "LassieShim")
      a7 == StatusBlockRR(a6, rs, path, "ShimNginx")
  IN  a7

RECURSIVE StatusLoopRR(_, _, _, _)
StatusLoopRR(acc, res, order, readResponse) ==
  IF order = <<>> THEN acc
  ELSE StatusLoopRR(StatusOfPathRR(acc, res[Head(order)], Head(order), readResponse),
                    res, Tail(order), readResponse)

(* the pairs whose status mismatches the revision reports *)
StatusPairsRR == {"KuboLassie", "LassieShim", "ShimNginx"}

(* part_001 lines 438-471, 473-475, 507-535: the files of the report *)
ReportFilesRR(acc, rbm, readResponse) ==
  LET status == [pair \in StatusPairsRR |-> StatusFile[pair]]
      paths  == [pair \in StatusPairsRR |-> StatusPathsFile[pair]]
      reads  == [pair \in {"LassieShim", "ShimNginx"} |-> ContentFile[pair]]
      rpaths == [pair \in {"LassieShim", "ShimNginx"} |-> ContentPathsFile[pair]]
  IN  FilesOf(status, acc.Mismatch) @@ FilesOf(paths, acc.MismatchPaths)
        @@ (IF readResponse
            THEN (ResponseReadsFile :> rbm) @@ FilesOf(reads, rbm.Mismatches)
                   @@ FilesOf(rpaths, rbm.MismatchPaths)
            ELSE EmptyMap)
        @@ (TopLevelFile :>
              [Kubo2XX   |-> acc.result2xx["kubogw"],
               Lassie2XX |-> acc.result2xx["lassie"],
               Shim2XX   |-> acc.result2xx["l1shim"],
               Nginx2XX  |-> acc.result2xx["l1nginx"],
               KuboLassieMismatch |-> Cardinality(DOMAIN acc.Mismatch["KuboLassie"]),
               LassieShimMismatch |-> Cardinality(DOMAIN acc.Mismatch["LassieShim"]),
               ShimNginxMismatch  |-> Cardinality(DOMAIN acc.Mismatch["ShimNginx"])])

(* WriteMismatchesToFile of the revision, part_001 lines 330-546, under    *)
(* re.mu: the status loop, then the files.  A panic ends the process.      *)
WriteMismatchesToFileRR ==
  /\ Running
  /\ mainpc = "results_written"
  /\ MuFree
  /\ \E order \in Orders(DOMAIN results) :
       LET acc == StatusLoopRR(NewStatusReport, results, order, config.readResponse)
       IN  /\ report' = [written |-> acc.panic = NoPanic, status |-> acc,
                         files |-> IF acc.panic # NoPanic THEN EmptyMap
                                   ELSE ReportFilesRR(acc, responseReads, config.readResponse)]
           /\ crashed' = acc.panic
  /\ mainpc' = "reported"
  /\ UNCHANGED <<reqs, resp, pathpc, sub, sem, wg, mu, results, rbs, responseReads,
                 resultsFile, calls, writes, evals, config, cidContact>>

NextRR ==
  \/ \E p \in reqs : StartPathRR(p)
  \/ \E p \in reqs : \E l \in Layers : LayerDoneRR(p, l)
  \/ \E p \in reqs : JoinRR(p)
  \/ \E p \in reqs : Release(p)
  \/ ExecuteReturn
  \/ WriteResultsToFile
  \/ WriteMismatchesToFileRR

InitRR ==
  \E row \in OddRows : \E rr \in BOOLEAN :
    InitRun("loop", {1}, {1}, [p \in {1} |-> row],
            [ValidConfig(1, 1) EXCEPT !.readResponse = rr], "up")

SpecRR == InitRR /\ [][NextRR]_vars

(* ---------------------------------------------------------------------- *)
(* The reporting step with cid.contact and the shape of the paths varied.  *)
(* ---------------------------------------------------------------------- *)
InitReport ==
  \E row \in {[l \in Layers |-> DefaultResponse(l)], MixedRow, VariantRow} :
    \E prefix \in {"/ipfs/", "/ipns/"} : \E cc \in {"up", "down"} :
      InitRun("loop", {1}, {1}, [p \in {1} |-> row],
              [ValidConfig(1, 1) EXCEPT !.log = [p \in {1} |-> prefix]], cc)

SpecReport == InitReport /\ [][Next]_vars

(* ---------------------------------------------------------------------- *)
(* main (cmd/onion/main.go) up to the first round.                         *)
(* ---------------------------------------------------------------------- *)
(* Mutant of PortInRange: the upper limit of a port is not checked. *)
PortPositive(port) == port > 0

(* the negation of "cfg.<X>Port <= 0 || cfg.<X>Port > 65535" *)
PortInRange(port) == ~(port <= 0 \/ port > 65535)

(* the negation of "c == 0 || len(f) == 0 || n == 0" *)
FlagsGiven(cfg) == ~(cfg.count = 0 \/ cfg.fileName = "" \/ cfg.nRuns = 0)

(* getConfig: the panic it ends in, or NoPanic; the four IPs are checked   *)
(* first, then the four ports.                                             *)
getConfig(cfg) ==
  IF \E h \in Hosts : ~cfg.hosts[h].ipParses THEN "invalid ip"
  ELSE IF \E h \in Hosts : ~PortInRange(cfg.hosts[h].port) THEN "invalid port"
  ELSE NoPanic

(* main, lines 225-262: flag.Parse and the usage check, getConfig, the     *)
(* request set built from the first count unique paths of the replay log.  *)
(* "exit" is os.Exit(1); a panic ends the process as well.                 *)
MainStartup ==
  /\ Running
  /\ mainpc = "start"
  /\ IF ~FlagsGiven(config)
     THEN mainpc' = "exit" /\ UNCHANGED <<reqs, crashed>>
     ELSE IF getConfig(config) # NoPanic
          THEN mainpc' = "exit" /\ crashed' = getConfig(config) /\ UNCHANGED reqs
          ELSE IF Len(config.log) < config.count
               THEN mainpc' = "exit" /\ UNCHANGED <<reqs, crashed>>
               ELSE mainpc' = "loop" /\ reqs' = 1..config.count /\ UNCHANGED crashed
  /\ UNCHANGED <<resp, pathpc, sub, sem, wg, mu, results, rbs, responseReads,
                 resultsFile, report, calls, writes, evals, config, cidContact>>

(* the exit status of the process: a Go panic exits with 2 *)
ExitStatus == IF crashed # NoPanic THEN 2 ELSE IF mainpc = "exit" THEN 1 ELSE 0

(* The command lines, config.toml files and replay logs main is started on. *)
StartupConfigs ==
  {[ValidConfig(c, n) EXCEPT !.fileName = f, !.nRuns = k] :
     c \in 0..MaxCount, n \in 0..MaxCount, f \in {"", "replay.log"}, k \in 0..1}
  \cup {[ValidConfig(1, 1) EXCEPT !.hosts[h].ipParses = FALSE] : h \in Hosts}
  \cup {[ValidConfig(1, 1) EXCEPT !.hosts[h].port = q] : h \in Hosts, q \in {0, 65535, 65536}}

InitStartup ==
  \E cfg \in StartupConfigs :
    InitRun("start", 1..Len(cfg.log), {}, [p \in 1..Len(cfg.log) |-> ReplayRow(p)], cfg, "up")

NextMain == MainStartup \/ Next

SpecStartup == InitStartup /\ [][NextMain]_vars

(* ====================================================================== *)
(* Claims.                                                                 *)
(* ====================================================================== *)

(* path tasks that hold a slot of sem: from sem <- struct{}{} to <-sem *)
SlotHolders == {p \in reqs : pathpc[p] \in {"run", "eval", "evaluated"}}

(* GETs issued and not yet returned *)
InFlight == {pl \in reqs \X Layers : sub[pl[1]][pl[2]] = "call"}

(* C1: during Execute at most defaultConcurrency path tasks hold a slot of *)
(* the semaphore, and the number of network calls in flight never exceeds  *)
(* defaultConcurrency times the number of layers.                          *)
C1_ConcurrencyBound ==
  /\ Cardinality(SlotHolders) <= defaultConcurrency
  /\ sem = Cardinality(SlotHolders)
  /\ Cardinality(InFlight) <= defaultConcurrency * Cardinality(Layers)

(* The semaphore is full with every call of its holders in flight, and a   *)
(* path is still waiting for a slot.                                       *)
C1_Witness ==
  /\ Cardinality(SlotHolders) = defaultConcurrency
  /\ Cardinality(InFlight) = defaultConcurrency * Cardinality(Layers)
  /\ \E p \in reqs : pathpc[p] = "idle"

(* C2: after Execute returns, the store holds, for every path of the       *)
(* request set, a Results whose five layer slots are all set.              *)
C2_AllSlotsPopulated ==
  mainpc # "loop" =>
    \A p \in reqs : p \in DOMAIN results /\ DOMAIN results[p] = Layers

(* Execute has returned on a run with a transport failure, a failed body   *)
(* read and a non-200 status among the calls.                              *)
C2_Witness ==
  /\ mainpc = "executed"
  /\ \E p \in reqs : /\ results[p]["bifrost"].StatusCode = 0
                      /\ results[p]["l1shim"].ResponseBodyReadError # ""
                      /\ results[p]["l1nginx"].StatusCode = 502

(* C3: the evaluation of a path starts only after all five layer           *)
(* goroutines of the path stored their result; it never reads an empty     *)
(* slot.                                                                   *)
C3_EvalAfterJoin ==
  /\ \A p \in reqs :
       pathpc[p] \in {"eval", "evaluated", "released"} =>
         /\ \A l \in Layers : sub[p][l] = "done"
         /\ p \in DOMAIN results /\ DOMAIN results[p] = Layers
  /\ crashed # "nil pointer dereference"

(* A path is being evaluated while the calls of another path are still in  *)
(* flight.                                                                 *)
C3_Witness ==
  \E p, q \in reqs : /\ pathpc[p] = "eval"
                      /\ pathpc[q] = "run" /\ \E l \in Layers : sub[q][l] = "call"

(* C4: each (path, layer) slot is written exactly once and one GET is      *)
(* issued per (path, layer); a stored Result is never overwritten.         *)
C4_OncePerSlot ==
  /\ [](\A p \in reqs : \A l \in Layers :
          /\ calls[p][l] <= 1 /\ writes[p][l] <= 1
          /\ writes[p][l] = 1 <=> (p \in DOMAIN results /\ l \in DOMAIN results[p])
          /\ mainpc # "loop" => (calls[p][l] = 1 /\ writes[p][l] = 1))
  /\ [][\A p \in DOMAIN results : \A l \in DOMAIN results[p] :
          /\ p \in DOMAIN results' /\ l \in DOMAIN results'[p]
          /\ results'[p][l] = results[p][l]]_vars

(* Execute has returned: every call was issued and every slot written. *)
C4_Witness ==
  /\ mainpc = "executed"
  /\ \A p \in reqs : \A l \in Layers : calls[p][l] = 1 /\ writes[p][l] = 1

(* C5: every mutation of the shared store (re.results, re.responseReads)   *)
(* is made by the task that holds re.mu, and at most one task is in the    *)
(* critical section at any time.                                           *)
C5_MutexGuardsStore ==
  /\ [](/\ Cardinality({p \in reqs : pathpc[p] = "eval"}) <= 1
        /\ \A p \in reqs : pathpc[p] = "eval" <=> mu = p)
  /\ [][(results' # results \/ responseReads' # responseReads) =>
          \/ mu = 0 /\ mu' = 0 /\ responseReads' = responseReads
          \/ /\ mu \in reqs /\ pathpc[mu] = "eval" /\ pathpc'[mu] = "evaluated"
             /\ results' = results]_vars

(* A path task holds re.mu for its evaluation while a layer goroutine of   *)
(* another path has a result to store.                                     *)
C5_Witness ==
  \E p, q \in reqs : /\ p # q /\ mu = p /\ pathpc[p] = "eval"
                      /\ \E l \in Layers : sub[q][l] = "call"

(* ---------------------------------------------------------------------- *)
(* Evaluation claims (SpecEval).                                           *)
(* ---------------------------------------------------------------------- *)

(* a Result with status 200 and an error-free body read *)
Ok200(r) == r.StatusCode = StatusOK /\ r.ResponseBodyReadError = ""
(* a Result with status 200 whose body read failed *)
ReadFailed(r) == r.StatusCode = StatusOK /\ r.ResponseBodyReadError # ""

BothOk200(p, pair) == Ok200(results[p][First(pair)]) /\ Ok200(results[p][Second(pair)])

(* the path's evaluation ran to its end *)
Evaluated(p) == pathpc[p] \in {"evaluated", "released"} /\ crashed = NoPanic
(* this step is the evaluation of p *)
EvalStep(p) == pathpc[p] = "eval" /\ pathpc'[p] = "evaluated"

(* the content normalizer applied to the body of a layer: the CAR layers   *)
(* are decoded, Kubo and Bifrost already return the canonical bytes        *)
Normalized(p, l) == IF l \in CarLayers THEN ExtractRaw(rbs[p][l]) ELSE ExtractOk(rbs[p][l])
DecodeOk(p, l) == ~Normalized(p, l).panic /\ ~Normalized(p, l).err

(* the number of evaluated paths on which the pair's normalized bytes are equal *)
EqualPaths(pair) ==
  {p \in reqs : /\ Evaluated(p) /\ BothOk200(p, pair)
                /\ DecodeOk(p, First(pair)) /\ DecodeOk(p, Second(pair))
                /\ Normalized(p, First(pair)).response = Normalized(p, Second(pair)).response}

(* C6: for every path and compared pair, if both layers returned 200 with  *)
(* no read error and no decode error, a content discrepancy is recorded    *)
(* iff the normalized bytes differ; when they are equal the pair's match   *)
(* counter counts the path.                                                *)
C6_ContentIffDiffer ==
  /\ \A p \in reqs : \A pair \in ContentPairs :
       (/\ Evaluated(p) /\ BothOk200(p, pair)
        /\ DecodeOk(p, First(pair)) /\ DecodeOk(p, Second(pair)))
       => (p \in DOMAIN responseReads.Mismatches[pair]
             <=> Normalized(p, First(pair)).response # Normalized(p, Second(pair)).response)
  /\ \A pair \in KuboPairs :
       (\A p \in reqs : pathpc[p] = "released") =>
          responseReads.TotalMatches[pair] = Cardinality(EqualPaths(pair))

(* everything re.responseReads holds about a pair compared against Kubo *)
PairRecord(pair) ==
  <<responseReads.Mismatches[pair], responseReads.MismatchPaths[pair],
    responseReads.TotalMatches[pair]>>

(* ExtractRaw is called for the pair and returns an error *)
NormalizerErrs(p, pair) ==
  /\ p \in DOMAIN results /\ DOMAIN results[p] = Layers
  /\ BothOk200(p, pair) /\ Normalized(p, Second(pair)).err

(* C7: when ExtractRaw fails (here: returns an error) for a pair on a      *)
(* path, the evaluation records that outcome for the pair in the run's     *)
(* results.  ResponseBytesMismatch has no decode-error field, so a record  *)
(* of it could only show in what it holds about the pair.                  *)
C7_DecodeErrorRecorded ==
  [][\A p \in reqs : \A pair \in KuboCarPairs :
       (EvalStep(p) /\ NormalizerErrs(p, pair)) => PairRecord(pair)' # PairRecord(pair)]_vars

(* C8: when ExtractRaw returns an error for a pair on a path, the          *)
(* evaluation of the path changes neither the pair's match counter nor its *)
(* content-mismatch map or path list.                                      *)
C8_ErrLeavesPairUntouched ==
  [][\A p \in reqs : \A pair \in KuboCarPairs :
       (EvalStep(p) /\ NormalizerErrs(p, pair)) => PairRecord(pair)' = PairRecord(pair)]_vars

(* A path was evaluated on which Kubo returned content and ExtractRaw      *)
(* returned an error for a CAR layer's body.                               *)
C8_Witness ==
  \E p \in reqs : \E pair \in KuboCarPairs :
    /\ Evaluated(p) /\ NormalizerErrs(p, pair)
    /\ rbs[p]["kubogw"] # <<>>

(* WriteMismatchesToFile has run *)
Reported == mainpc = "reported" /\ report.written

(* C9 as claimed: a status mismatch is flagged for a pair when one side    *)
(* succeeded and the other did not, whichever side succeeded.              *)
C9_FlaggedWhicheverSide ==
  Reported =>
    \A p \in reqs : \A pair \in StatusPairs :
      (Ok200(results[p][First(pair)]) # Ok200(results[p][Second(pair)]))
        => p \in DOMAIN report.status.Mismatch[pair]

(* C9 as amended: for each pair of the status report, the path is flagged  *)
(* exactly when the first layer of the pair returned 200 with a clean read *)
(* and the second did not; it is not flagged when only the second did.     *)
C9_FlaggedWhenFirstSucceeded ==
  Reported =>
    \A p \in reqs : \A pair \in StatusPairs :
      /\ p \in DOMAIN report.status.Mismatch[pair]
           <=> (Ok200(results[p][First(pair)]) /\ ~Ok200(results[p][Second(pair)]))
      /\ p \in DOMAIN report.status.Mismatch[pair]
           <=> (\E i \in DOMAIN report.status.MismatchPaths[pair] :
                  report.status.MismatchPaths[pair][i] = p)

(* The report was written on a run where, for one pair, only the second    *)
(* layer succeeded, and for another pair only the first.                   *)
C9_Witness ==
  /\ Reported
  /\ \E p \in reqs : \E pair, other \in StatusPairs :
       /\ ~Ok200(results[p][First(pair)]) /\ Ok200(results[p][Second(pair)])
       /\ Ok200(results[p][First(other)]) /\ ~Ok200(results[p][Second(other)])

(* the pairs a layer takes part in *)
PairsOf(l, pairs) == {pair \in pairs : l \in {First(pair), Second(pair)}}

(* C10 as claimed: a layer that returned 200 but whose body read failed    *)
(* is excluded from every comparison of the path: no status mismatch and   *)
(* no content discrepancy is recorded for a pair that involves it.         *)
C10_ReadErrorExcludedEverywhere ==
  Reported =>
    \A p \in reqs : \A l \in Layers :
      ReadFailed(results[p][l]) =>
        /\ \A pair \in PairsOf(l, StatusPairs) : p \notin DOMAIN report.status.Mismatch[pair]
        /\ \A pair \in PairsOf(l, ContentPairs) : p \notin DOMAIN responseReads.Mismatches[pair]

(* C10 as amended: such a layer is excluded from the content comparisons   *)
(* of the path (its evaluation records no content discrepancy and no match *)
(* for a pair that involves the layer); in the status report the layer     *)
(* counts as failed: a pair is flagged exactly when the layer is its       *)
(* second side and its first side returned 200 with a clean read.          *)
C10_ReadErrorExcludedFromContent ==
  /\ [](Reported =>
         \A p \in reqs : \A l \in Layers :
           ReadFailed(results[p][l]) =>
             /\ \A pair \in PairsOf(l, ContentPairs) :
                  p \notin DOMAIN responseReads.Mismatches[pair]
             /\ \A pair \in PairsOf(l, StatusPairs) :
                  p \in DOMAIN report.status.Mismatch[pair]
                    <=> (l = Second(pair) /\ Ok200(results[p][First(pair)])))
  /\ [][\A p \in reqs : \A l \in Layers :
          (EvalStep(p) /\ l \in DOMAIN results[p] /\ ReadFailed(results[p][l])) =>
             /\ \A pair \in PairsOf(l, ContentPairs) :
                  /\ responseReads'.Mismatches[pair] = responseReads.Mismatches[pair]
                  /\ responseReads'.MismatchPaths[pair] = responseReads.MismatchPaths[pair]
             /\ \A pair \in PairsOf(l, KuboPairs) :
                  responseReads'.TotalMatches[pair] = responseReads.TotalMatches[pair]]_vars

(* The report was written on a run where a layer's body read failed after  *)
(* a 200 while the first layer of one of its pairs returned content.       *)
C10_Witness ==
  /\ Reported
  /\ \E p \in reqs : \E pair \in StatusPairs :
       /\ ReadFailed(results[p][Second(pair)])
       /\ Ok200(results[p][First(pair)])
       /\ p \in DOMAIN report.status.Mismatch[pair]

(* ---------------------------------------------------------------------- *)
(* Read errors, the two axes, transport failures.                          *)
(* ---------------------------------------------------------------------- *)

(* the evaluated paths on which a layer returned 200 and its body read failed *)
ReadErrorPathsOf(l) == {p \in reqs : Evaluated(p) /\ ReadFailed(results[p][l])}

(* C11: for every layer, Kubo included, a 200 response whose body read     *)
(* fails increments the layer's read-error counter exactly once for the    *)
(* path and records the path among the layer's read errors (once in the    *)
(* path list, and in the read-error map).                                  *)
C11_ReadErrorCountedForEveryLayer ==
  \A l \in Layers :
    ReadErrorPathsOf(l) # {} =>
      /\ l \in DOMAIN responseReads.TotalReadError
      /\ responseReads.TotalReadError[l] = Cardinality(ReadErrorPathsOf(l))
      /\ DOMAIN responseReads.ReadErrors[l] = ReadErrorPathsOf(l)
      /\ \A p \in ReadErrorPathsOf(l) :
           Cardinality({i \in DOMAIN responseReads.ReadErrorPaths[l] :
                          responseReads.ReadErrorPaths[l][i] = p}) = 1

(* the pairs that have both a status-mismatch set and a content comparison *)
TwoAxisPairs == StatusPairs \cap ContentPairs

(* the paths whose evaluation counted a match for a pair: both sides read,  *)
(* nothing recorded as a discrepancy                                       *)
MatchCandidates(pair) ==
  {p \in reqs : /\ pathpc[p] \in {"evaluated", "released"}
                /\ BothOk200(p, pair)
                /\ p \notin DOMAIN responseReads.Mismatches[pair]}

(* C12: a content discrepancy or a match is recorded for a pair on a path  *)
(* only when both layers returned 200 with an error-free body read; no     *)
(* (path, pair) has both a status mismatch and a content outcome.          *)
C12_ContentOnlyWhenBothRead ==
  /\ \A pair \in ContentPairs : \A p \in DOMAIN responseReads.Mismatches[pair] :
       BothOk200(p, pair)
  /\ \A pair \in KuboPairs :
       responseReads.TotalMatches[pair] <= Cardinality(MatchCandidates(pair))
  /\ Reported =>
       \A pair \in StatusPairs : \A p \in DOMAIN report.status.Mismatch[pair] :
         /\ ~BothOk200(p, pair)
         /\ pair \in TwoAxisPairs => p \notin DOMAIN responseReads.Mismatches[pair]

(* The report was written on a run where one pair has a status mismatch    *)
(* on the path and another pair a content discrepancy on the same path.    *)
C12_Witness ==
  /\ Reported
  /\ \E p \in reqs : \E pair \in StatusPairs : \E other \in ContentPairs :
       /\ p \in DOMAIN report.status.Mismatch[pair]
       /\ p \in DOMAIN responseReads.Mismatches[other]

(* C13: a call that fails at the transport level is issued once (never    *)
(* retried) and yields exactly one Result with status 0 and a non-empty    *)
(* error string, stored in the layer's slot by the same addResultF as a    *)
(* successful call.                                                        *)
C13_TransportFailureStoredOnce ==
  \A p \in reqs : \A l \in Layers :
    resp[p][l].kind = "transport" =>
      /\ calls[p][l] <= 1 /\ writes[p][l] <= 1
      /\ sub[p][l] = "done" =>
           /\ calls[p][l] = 1 /\ writes[p][l] = 1
           /\ l \in DOMAIN results[p]
           /\ results[p][l].StatusCode = 0
           /\ results[p][l].ErrorBody # NoErrorBody
           /\ results[p][l].ErrorBody.kind = "error sending request"

(* A path was evaluated on which one call failed at the transport level    *)
(* and another returned 200.                                               *)
C13_Witness ==
  \E p \in reqs : \E l, k \in Layers :
    /\ Evaluated(p)
    /\ resp[p][l].kind = "transport" /\ results[p][l].StatusCode = 0
    /\ Ok200(results[p][k])

(* C14: a transport failure or a slow response on one layer never          *)
(* prevents or cancels the calls to the other layers of the path: a call   *)
(* that was issued stays issued until it returns, it can return and have   *)
(* its result stored whatever the state of the other layers (it only waits *)
(* for re.mu), and a returned call has its result in the store.            *)
C14_NoCrossCallCancellation ==
  \A p \in reqs : \A l \in Layers :
    /\ pathpc[p] # "idle" => sub[p][l] \in {"call", "done"}
    /\ (sub[p][l] = "call" /\ mu = 0) => ENABLED LayerDone(p, l)
    /\ sub[p][l] = "done" => (p \in DOMAIN results /\ l \in DOMAIN results[p])

(* One layer's call failed at the transport level, another layer has not   *)
(* answered yet, and the three other layers' results are recorded.         *)
C14_Witness ==
  \E p \in reqs : \E l, k \in Layers :
    /\ sub[p][l] = "done" /\ results[p][l].StatusCode = 0
         /\ results[p][l].ErrorBody.kind = "error sending request"
    /\ sub[p][k] = "call"
    /\ \A j \in Layers \ {l, k} : sub[p][j] = "done" /\ j \in DOMAIN results[p]

(* ---------------------------------------------------------------------- *)
(* Determinism, totals, termination.                                       *)
(* ---------------------------------------------------------------------- *)

(* the discrepancy output WriteMismatchesToFile computes from re.results   *)
(* when its range visits the paths in the given order                      *)
StatusOutput(order) == StatusLoop(NewStatusReport, results, order)

(* C15: evaluating the rules again against unchanged results yields an     *)
(* identical discrepancy output (maps, path lists and counters): whatever  *)
(* two evaluations WriteMismatchesToFile makes of the same re.results,     *)
(* their outputs are equal.                                                *)
C15_ReevaluationIdentical ==
  mainpc = "results_written" =>
    \A first, again \in Orders(DOMAIN results) : StatusOutput(first) = StatusOutput(again)

(* the evaluated paths on which a layer returned 200 with a clean read *)
ReadSuccessPathsOf(l) ==
  {p \in reqs : pathpc[p] \in {"evaluated", "released"} /\ Ok200(results[p][l])}
(* the evaluated paths on which a layer returned 200 and the read failed *)
ReadFailedPathsOf(l) ==
  {p \in reqs : pathpc[p] \in {"evaluated", "released"} /\ ReadFailed(results[p][l])}

(* C16: after every completed path evaluation each read counter equals the *)
(* value recomputed from the stored results: TotalReadSuccess of a layer   *)
(* is the number of evaluated paths with 200 and a clean read,             *)
(* TotalReadError the number of evaluated paths with 200 and a read error; *)
(* the per-layer 2xx count of WriteMismatchesToFile is the same number.    *)
C16_CountersRecomputable ==
  /\ \A l \in ReadLayers :
       /\ responseReads.TotalReadSuccess[l] = Cardinality(ReadSuccessPathsOf(l))
       /\ responseReads.TotalReadError[l] = Cardinality(ReadFailedPathsOf(l))
       /\ Len(responseReads.ReadErrorPaths[l]) = responseReads.TotalReadError[l]
       /\ DOMAIN responseReads.ReadErrors[l] = ReadFailedPathsOf(l)
  /\ Reported =>
       /\ \A l \in Layers : report.status.result2xx[l] = Cardinality(ReadSuccessPathsOf(l))
       /\ \A l \in ReadLayers : report.status.result2xx[l] = responseReads.TotalReadSuccess[l]

(* The report was written on a run where a layer has both several clean    *)
(* reads and a read error.                                                 *)
C16_Witness ==
  /\ Reported
  /\ \E l \in ReadLayers : /\ responseReads.TotalReadSuccess[l] >= 2
                            /\ responseReads.TotalReadError[l] >= 1

(* C17: no outcome of a network call or of normalizing a response body     *)
(* (malformed archive, missing root, block absent from the archive)        *)
(* terminates the process.                                                 *)
C17_NoOutcomeTerminates == crashed = NoPanic

(* C18: a path task gives its slot back only after all of its layer        *)
(* goroutines have completed and its evaluation has run; while a call of   *)
(* the path is in flight the task holds a slot.                            *)
C18_SlotHeldUntilJoined ==
  /\ \A p \in reqs :
       /\ (\E l \in Layers : sub[p][l] = "call") => p \in SlotHolders
       /\ pathpc[p] = "released" =>
            /\ \A l \in Layers : sub[p][l] = "done"
            /\ evals[p] = 1
  /\ sem = Cardinality(SlotHolders)

(* A path task has given its slot back, the path that waited for it has    *)
(* calls in flight.                                                        *)
C18_Witness ==
  \E p, q \in reqs :
    /\ pathpc[p] = "released"
    /\ pathpc[q] = "run" /\ \E l \in Layers : sub[q][l] = "call"
    /\ sem = defaultConcurrency

(* C19: with every goroutine scheduled and every call returning, Execute   *)
(* eventually returns, and when it has returned every path of the request  *)
(* set was evaluated exactly once.                                         *)
C19_ExecuteReturns ==
  /\ <>(mainpc # "loop")
  /\ [](mainpc # "loop" => \A p \in reqs : evals[p] = 1)

(* a Result with a 2xx status and an error-free body read *)
Ok2xx(r) ==
  /\ r.StatusCode \in 200..299
  /\ r.ResponseBodyReadError = ""
  /\ r.ErrorBody.kind # "error reading response body"

(* C20: success means any 2xx status: when both layers of a pair returned  *)
(* a 2xx status with error-free reads (200 and 206, say), no status        *)
(* mismatch is recorded for the pair.                                      *)
C20_Any2xxIsSuccess ==
  Reported =>
    \A p \in reqs : \A pair \in StatusPairs :
      (Ok2xx(results[p][First(pair)]) /\ Ok2xx(results[p][Second(pair)]))
        => p \notin DOMAIN report.status.Mismatch[pair]

(* ---------------------------------------------------------------------- *)
(* Normalization, entries, report files.                                   *)
(* ---------------------------------------------------------------------- *)

(* both sides of the pair were read and decode without error *)
Comparable(p, pair) ==
  /\ Evaluated(p) /\ BothOk200(p, pair)
  /\ DecodeOk(p, First(pair)) /\ DecodeOk(p, Second(pair))

(* the pair's normalized byte strings differ on the path *)
NormalizedDiffer(p, pair) ==
  Normalized(p, First(pair)).response # Normalized(p, Second(pair)).response

(* the pairs whose two bodies are compared as they were read *)
RawPairs == ContentPairs \ KuboCarPairs

C22_AnyDifferenceRecorded ==
  \A p \in reqs : \A pair \in ContentPairs :
    (Comparable(p, pair) /\ NormalizedDiffer(p, pair))
      => p \in DOMAIN responseReads.Mismatches[pair]

(* the entry is a Results with the pair's two slots, both as stored *)
EntryOfPair(entry, p, pair) ==
  /\ DOMAIN entry = {First(pair), Second(pair)}
  /\ \A l \in DOMAIN entry : entry[l] = results[p][l]

(* C23: every discrepancy entry recorded for a pair on a path holds the    *)
(* two Results of the pair as stored for the path, and no other slot.      *)
C23_EntryHoldsThePairOnly ==
  /\ \A pair \in ContentPairs : \A p \in DOMAIN responseReads.Mismatches[pair] :
       EntryOfPair(responseReads.Mismatches[pair][p], p, pair)
  /\ Reported =>
       \A pair \in StatusPairs : \A p \in DOMAIN report.status.Mismatch[pair] :
         EntryOfPair(report.status.Mismatch[pair][p], p, pair)

(* The report was written with a status entry and a content entry for a    *)
(* path whose Results has all five slots.                                  *)
C23_Witness ==
  /\ Reported
  /\ \E p \in reqs :
       /\ DOMAIN results[p] = Layers
       /\ \E pair \in StatusPairs : p \in DOMAIN report.status.Mismatch[pair]
       /\ \E pair \in ContentPairs : p \in DOMAIN responseReads.Mismatches[pair]

(* C24: for every compared pair the round writes a discrepancy report      *)
(* whose key set is exactly the set of paths with a discrepancy of that    *)
(* kind for the pair: one for the status mismatches of each status pair,   *)
(* one for the content discrepancies of each content pair.                 *)
C24_ReportPerPair ==
  Reported =>
    /\ \A pair \in StatusPairs :
         /\ StatusFile[pair] \in DOMAIN report.files
         /\ DOMAIN report.files[StatusFile[pair]] = DOMAIN report.status.Mismatch[pair]
    /\ \A pair \in ContentPairs :
         /\ pair \in DOMAIN ContentFile
         /\ ContentFile[pair] \in DOMAIN report.files
         /\ DOMAIN report.files[ContentFile[pair]] = DOMAIN responseReads.Mismatches[pair]

(* the fields the summary would have for the mismatch count of each status pair *)
MismatchMetric ==
  [KuboLassie   |-> "KuboLassieMismatch",
   LassieShim   |-> "LassieShimMismatch",
   ShimNginx    |-> "ShimNginxMismatch",
   NginxBifrost |-> "NginxBifrostMismatch",
   KuboBifrost  |-> "KuboBifrostMismatch"]
(* the fields of the summary for the successful reads of each layer *)
SuccessMetric ==
  [kubogw |-> "Kubo2XX", lassie |-> "Lassie2XX", l1shim |-> "Shim2XX",
   l1nginx |-> "Nginx2XX", bifrost |-> "Bifrost2xx"]

(* C25: the top-level metrics of a round hold the successful-read count of *)
(* every layer and the mismatch count of every pair with a status-mismatch *)
(* set, each equal to the size of its set.                                 *)
C25_TopLevelMetricsComplete ==
  Reported =>
    LET metrics == report.files[TopLevelFile]
    IN  /\ \A l \in Layers :
             /\ SuccessMetric[l] \in DOMAIN metrics
             /\ metrics[SuccessMetric[l]] = Cardinality({p \in reqs : Ok200(results[p][l])})
        /\ \A pair \in StatusPairs :
             /\ MismatchMetric[pair] \in DOMAIN metrics
             /\ metrics[MismatchMetric[pair]] = Cardinality(DOMAIN report.status.Mismatch[pair])

(* ---------------------------------------------------------------------- *)
(* The four shapes of a Result.                                            *)
(* ---------------------------------------------------------------------- *)
TransportShape(res) ==
  /\ res.StatusCode = 0 /\ res.ErrorBody.kind = "error sending request"
  /\ res.ResponseBody = <<>> /\ res.ResponseSize = 0 /\ res.ResponseBodyReadError = ""
FullReadShape(res) ==
  /\ res.StatusCode = StatusOK /\ res.ErrorBody = NoErrorBody /\ res.ResponseBodyReadError = ""
  /\ res.ResponseSize = Len(res.ResponseBody)
FailedReadShape(res) ==
  /\ res.StatusCode = StatusOK /\ res.ResponseBodyReadError # ""
  /\ res.ResponseBody = <<>> /\ res.ResponseSize = 0 /\ res.ErrorBody = NoErrorBody
OtherStatusShape(res) ==
  /\ res.StatusCode \notin {0, StatusOK} /\ res.ResponseBodyReadError = ""
  /\ res.ResponseBody = <<>> /\ res.ResponseSize = 0
  /\ res.ErrorBody.kind \in {"body", "error reading response body"}

ShapesOf(res) ==
  {k \in {"transport", "full", "failed read", "other"} :
     \/ k = "transport" /\ TransportShape(res)
     \/ k = "full" /\ FullReadShape(res)
     \/ k = "failed read" /\ FailedReadShape(res)
     \/ k = "other" /\ OtherStatusShape(res)}

(* the shape the answer of the server calls for *)
ExpectedShape(r) ==
  IF r.kind = "transport" THEN "transport"
  ELSE IF r.status = StatusOK THEN (IF r.readErr THEN "failed read" ELSE "full")
  ELSE "other"

(* C30: executeHTTPRequest classifies every call into exactly one of the   *)
(* four shapes, the one its outcome calls for: a 200 body that was read is *)
(* the body returned, an error body that was read is the response body as  *)
(* text, an error body that was not is the read-failure text; the stored   *)
(* Result is that Result with its body moved to the task's local.          *)
C30_FourResultShapes ==
  \A p \in DOMAIN resp : \A l \in Layers :
    LET r == resp[p][l]
        res == executeHTTPRequest(<<p, l>>, r)
    IN  /\ ShapesOf(res) = {ExpectedShape(r)}
        /\ FullReadShape(res) => res.ResponseBody = r.body
        /\ OtherStatusShape(res) =>
             IF r.readErr THEN res.ErrorBody.kind = "error reading response body"
             ELSE res.ErrorBody = [kind |-> "body", text |-> r.body]
        /\ sub[p][l] = "done" =>
             /\ results[p][l] = [res EXCEPT !.ResponseBody = <<>>]
             /\ rbs[p][l] = res.ResponseBody

(* A path was evaluated whose calls ended in three different shapes, one   *)
(* of them an error status whose body could not be read.                   *)
C30_Witness ==
  \E p \in reqs : \E l, k \in Layers :
    /\ Evaluated(p)
    /\ results[p][l].StatusCode = 502
    /\ results[p][l].ErrorBody.kind = "error reading response body"
    /\ TransportShape(results[p][k])

(* ---------------------------------------------------------------------- *)
(* Reporting and startup.                                                  *)
(* ---------------------------------------------------------------------- *)

(* C26: whatever the store holds and whatever the mismatching paths are,   *)
(* WriteMismatchesToFile finishes and has written all of its artifacts,    *)
(* the top-level metrics file included: once entered it is never left in   *)
(* the retry loop of Check and never aborted by a panic.                   *)
C26_ReportingCompletes ==
  mainpc \in {"cid.contact", "reported"} =>
    /\ mainpc = "reported" /\ crashed = NoPanic
    /\ report.written /\ TopLevelFile \in DOMAIN report.files

(* the configuration passes every check of main and getConfig *)
ConfigAccepted(cfg) ==
  /\ cfg.count >= 1 /\ cfg.fileName # "" /\ cfg.nRuns >= 1
  /\ \A h \in Hosts : cfg.hosts[h].ipParses /\ cfg.hosts[h].port \in 1..65535
  /\ Len(cfg.log) >= cfg.count

(* a GET to a layer has been issued *)
NetworkActivity == \E p \in DOMAIN calls : \E l \in Layers : calls[p][l] > 0

(* C27: no call to any layer is issued before the flags and the host/port  *)
(* configuration were validated: with a missing required flag, an invalid  *)
(* IP, a port out of range or a replay log with fewer unique paths than    *)
(* the requested count, the program ends with a non-zero status and no     *)
(* request is ever dispatched.                                             *)
C27_ValidatedBeforeNetwork ==
  /\ NetworkActivity => (ConfigAccepted(config) /\ mainpc # "start")
  /\ (~ConfigAccepted(config) /\ mainpc # "start") =>
       /\ ExitStatus # 0
       /\ ~NetworkActivity /\ reqs = {}

(* main has ended on a configuration whose only fault is a port just above *)
(* the range.                                                              *)
C27_Witness ==
  /\ \E h \in Hosts : config.hosts[h].port = 65536
  /\ FlagsGiven(config)
  /\ mainpc = "exit" /\ ExitStatus = 2 /\ ~NetworkActivity

(* ---------------------------------------------------------------------- *)
(* The read-response flag; independence of the completion order.           *)
(* ---------------------------------------------------------------------- *)

(* C28: in the flag-controlled revision, with the read-response flag off   *)
(* no body is read on a 200 response and executeRequest records no content *)
(* discrepancy and changes no read counter; with the flag on the bodies of *)
(* Lassie - Shim and Shim - Nginx are compared: a discrepancy is recorded  *)
(* iff both were read and differ.                                          *)
C28_StatusOnlyReadsNothing ==
  /\ ~config.readResponse =>
       /\ responseReads = NewResponseBytesMismatch
       /\ \A p \in reqs : \A l \in Layers :
            sub[p][l] = "done" =>
              /\ rbs[p][l] = <<>> /\ results[p][l].ResponseSize = 0
              /\ results[p][l].ResponseBodyReadError = ""
  /\ config.readResponse =>
       \A p \in reqs : \A pair \in {"LassieShim", "ShimNginx"} :
         pathpc[p] \in {"evaluated", "released"} =>
           (p \in DOMAIN responseReads.Mismatches[pair]
              <=> (BothOk200(p, pair) /\ rbs[p][First(pair)] # rbs[p][Second(pair)]))

(* Status-only mode: Execute has returned on a path where Lassie and the   *)
(* L1 Shim answered 200 with different bodies.                             *)
C28_Witness ==
  /\ ~config.readResponse /\ mainpc = "executed"
  /\ \E p \in reqs :
       /\ resp[p]["lassie"].status = StatusOK /\ resp[p]["l1shim"].status = StatusOK
       /\ resp[p]["lassie"].body # <<>> /\ resp[p]["lassie"].body # resp[p]["l1shim"].body
       /\ results[p]["lassie"].StatusCode = StatusOK

(* the Results the store holds at the end, from the answers alone *)
ResultsOf(p) ==
  [l \in Layers |-> [executeHTTPRequest(<<p, l>>, resp[p][l]) EXCEPT !.ResponseBody = <<>>]]
(* the bodies the task of a path holds at its evaluation, from the answers alone *)
BodiesOf(p) == [l \in Layers |-> executeHTTPRequest(<<p, l>>, resp[p][l]).ResponseBody]

(* the evaluations run one path after the other, in the given order *)
RECURSIVE EvaluatedInOrder(_, _)
EvaluatedInOrder(rbm, order) ==
  IF order = <<>> THEN rbm
  ELSE EvaluatedInOrder(evaluate(rbm, ResultsOf(Head(order)), Head(order), BodiesOf(Head(order))).rbm,
                        Tail(order))

(* the paths of the request set in ascending order *)
RECURSIVE Ascending(_)
Ascending(S) ==
  IF S = {} THEN <<>>
  ELSE LET m == CHOOSE x \in S : \A y \in S : x <= y IN <<m>> \o Ascending(S \ {m})

SetOf(list) == {list[i] : i \in DOMAIN list}

(* a ResponseBytesMismatch with its path lists taken as sets *)
ListsAsSets(rbm) ==
  [rbm EXCEPT !.MismatchPaths = [pair \in ContentPairs |-> SetOf(rbm.MismatchPaths[pair])],
              !.ReadErrorPaths = [l \in ReadLayers |-> SetOf(rbm.ReadErrorPaths[l])]]

(* C29: for fixed answers of every (path, layer) call, the state after     *)
(* Execute is the same in every interleaving: the stored results, the      *)
(* counters, the discrepancy maps and the path lists taken as sets are     *)
(* those of the run that takes the paths one after the other.              *)
C29_OrderIndependent ==
  mainpc = "executed" =>
    /\ results = [p \in reqs |-> ResultsOf(p)]
    /\ ListsAsSets(responseReads)
         = ListsAsSets(EvaluatedInOrder(NewResponseBytesMismatch, Ascending(reqs)))
    /\ \A pair \in ContentPairs :
         Len(responseReads.MismatchPaths[pair]) = Cardinality(DOMAIN responseReads.Mismatches[pair])

(* Execute has returned after evaluating a later path of the request set   *)
(* before an earlier one, both with a discrepancy for the same pair.       *)
C29_Witness ==
  /\ mainpc = "executed"
  /\ \E pair \in ContentPairs : \E i, j \in DOMAIN responseReads.MismatchPaths[pair] :
       i < j /\ responseReads.MismatchPaths[pair][i] > responseReads.MismatchPaths[pair][j]

(* ---------------------------------------------------------------------- *)
(* Empty slots, counters and lists.                                        *)
(* ---------------------------------------------------------------------- *)

(* the layer goroutines of a path that were started *)
StartedRR(p) == {l \in Layers : calls[p][l] > 0}

(* C31: in the flag-controlled revision, with the read-response flag on    *)
(* the Kubo call is not issued and the Kubo slot of every path stays       *)
(* empty; in both modes neither executeRequest nor WriteMismatchesToFile   *)
(* reads a field of an empty slot (no nil pointer dereference), and the    *)
(* join of a path waits for exactly the sub-tasks that were started.       *)
C31_EmptyKuboSlotNeverRead ==
  /\ config.readResponse =>
       \A p \in DOMAIN calls :
         /\ calls[p]["kubogw"] = 0
         /\ p \in DOMAIN results => "kubogw" \notin DOMAIN results[p]
  /\ crashed = NoPanic
  /\ mainpc = "reported" => report.written
  /\ \A p \in reqs :
       /\ pathpc[p] # "idle" => Cardinality(StartedRR(p)) = JoinCountRR
       /\ pathpc[p] \in {"evaluated", "released"} =>
            /\ \A l \in StartedRR(p) : sub[p][l] = "done"
            /\ DOMAIN results[p] = StartedRR(p)

(* Read-response mode: the report was written from a store whose Kubo      *)
(* slot is empty, after the evaluation of the path ran.                    *)
C31_Witness ==
  /\ config.readResponse /\ mainpc = "reported" /\ report.written
  /\ \E p \in reqs :
       /\ evals[p] = 1 /\ "kubogw" \notin DOMAIN results[p]
       /\ results[p]["lassie"].StatusCode = StatusOK

(* the evaluated paths on which a layer returned status 200 *)
Status200PathsOf(l) ==
  {p \in reqs : pathpc[p] \in {"evaluated", "released"} /\ results[p][l].StatusCode = StatusOK}

(* C32: for every layer with read counters, at every moment the sum of its *)
(* read-success total and its read-error total is the number of evaluated  *)
(* paths on which the layer returned 200, and one evaluation adds at most  *)
(* one to the two counters of a layer together.                            *)
C32_ReadCountersPartition200 ==
  /\ [](\A l \in ReadLayers :
          responseReads.TotalReadSuccess[l] + responseReads.TotalReadError[l]
            = Cardinality(Status200PathsOf(l)))
  /\ [][\A l \in ReadLayers :
          /\ responseReads'.TotalReadSuccess[l] \in
               {responseReads.TotalReadSuccess[l], responseReads.TotalReadSuccess[l] + 1}
          /\ responseReads'.TotalReadError[l] \in
               {responseReads.TotalReadError[l], responseReads.TotalReadError[l] + 1}
          /\ (responseReads'.TotalReadSuccess[l] + responseReads'.TotalReadError[l])
               - (responseReads.TotalReadSuccess[l] + responseReads.TotalReadError[l]) <= 1]_vars

(* Every path was evaluated; one layer has both a counted read error and a *)
(* counted read success, another returned 200 on some paths only.          *)
C32_Witness ==
  /\ \A p \in reqs : pathpc[p] \in {"evaluated", "released"}
  /\ \E l \in ReadLayers : /\ responseReads.TotalReadError[l] = 1
                            /\ responseReads.TotalReadSuccess[l] >= 1
  /\ \E l \in ReadLayers :
       /\ Status200PathsOf(l) # {}
       /\ Cardinality(Status200PathsOf(l)) < Cardinality(reqs)

(* the evaluated paths on which both layers of the pair returned 200 with  *)
(* clean reads                                                             *)
BothReadPathsOf(pair) ==
  {p \in reqs : pathpc[p] \in {"evaluated", "released"} /\ BothOk200(p, pair)}

(* the comparison of the pair is left out on the path: ExtractRaw fails,   *)
(* or, for Kubo - L1 Shim, it returns no bytes                             *)
NormalizationSkippedOrFailed(p, pair) ==
  /\ pair \in KuboCarPairs
  /\ \/ ~DecodeOk(p, Second(pair))
     \/ pair = "KuboL1Shim" /\ Len(Normalized(p, Second(pair)).response) = 0

(* what the pair's match counter and content-mismatch map hold together *)
Outcomes(pair) ==
  responseReads.TotalMatches[pair] + Cardinality(DOMAIN responseReads.Mismatches[pair])

(* C33: for each pair compared against Kubo, the match total plus the      *)
(* number of mismatch entries never exceeds the number of evaluated paths  *)
(* on which both layers returned 200 with clean reads, and is the number   *)
(* of those on which no normalization was skipped or failed; one           *)
(* evaluation adds at most one to the two together.                        *)
C33_MatchOrMismatchOncePerPath ==
  /\ [](\A pair \in KuboPairs :
          /\ Outcomes(pair) <= Cardinality(BothReadPathsOf(pair))
          /\ crashed = NoPanic =>
               Outcomes(pair) = Cardinality({p \in BothReadPathsOf(pair) :
                                               ~NormalizationSkippedOrFailed(p, pair)}))
  /\ [][\A pair \in KuboPairs :
          /\ responseReads'.TotalMatches[pair] >= responseReads.TotalMatches[pair]
          /\ DOMAIN responseReads.Mismatches[pair] \subseteq DOMAIN responseReads'.Mismatches[pair]
          /\ Outcomes(pair)' - Outcomes(pair) <= 1]_vars

(* A path was evaluated on which the L1 Shim's archive decoded to no bytes: *)
(* the Kubo - L1 Shim comparison was skipped while Kubo - Lassie counted a  *)
(* match.                                                                   *)
C33_Witness ==
  \E p \in BothReadPathsOf("KuboL1Shim") :
    /\ crashed = NoPanic
    /\ DecodeOk(p, "l1shim") /\ Len(Normalized(p, "l1shim").response) = 0
    /\ Outcomes("KuboL1Shim") = 0
    /\ responseReads.TotalMatches["KuboLassie"] = 1

(* the list has no duplicate and its elements are the keys of the map *)
ListIsKeysOf(list, map) ==
  /\ \A i, j \in DOMAIN list : list[i] = list[j] => i = j
  /\ {list[i] : i \in DOMAIN list} = DOMAIN map
  /\ Len(list) = Cardinality(DOMAIN map)

(* C34: for every discrepancy collection (content mismatches of each pair, *)
(* read errors of each layer, status mismatches of each pair) the path     *)
(* list holds no duplicate and its elements are exactly the keys of the    *)
(* map, so the length of the list is the size of the map.                  *)
C34_ListsAreMapKeys ==
  /\ \A pair \in ContentPairs :
       ListIsKeysOf(responseReads.MismatchPaths[pair], responseReads.Mismatches[pair])
  /\ \A l \in ReadLayers :
       ListIsKeysOf(responseReads.ReadErrorPaths[l], responseReads.ReadErrors[l])
  /\ Reported =>
       \A pair \in StatusPairs :
         ListIsKeysOf(report.status.MismatchPaths[pair], report.status.Mismatch[pair])

(* The report was written on a run with a content collection of two paths, *)
(* a read-error collection and a status collection that are not empty.     *)
C34_Witness ==
  /\ Reported
  /\ \E pair \in ContentPairs : Len(responseReads.MismatchPaths[pair]) >= 2
  /\ \E l \in ReadLayers : Len(responseReads.ReadErrorPaths[l]) >= 1
  /\ \E pair \in StatusPairs : Len(report.status.MismatchPaths[pair]) >= 2

(* every layer goroutine of the path is done and none stored status 200 *)
NoLayer200(p) ==
  /\ p \in DOMAIN results /\ DOMAIN results[p] = Layers
  /\ \A l \in Layers : sub[p][l] = "done" /\ results[p][l].StatusCode # StatusOK

(* the paths some collection of re.responseReads holds *)
PathsInResponseReads ==
  UNION {DOMAIN responseReads.Mismatches[pair] \cup SetOf(responseReads.MismatchPaths[pair])
           : pair \in ContentPairs}
    \cup UNION {DOMAIN responseReads.ReadErrors[l] \cup SetOf(responseReads.ReadErrorPaths[l])
                  : l \in ReadLayers}

(* the paths some status-mismatch collection of the report holds *)
PathsInStatusReport ==
  UNION {DOMAIN report.status.Mismatch[pair] \cup SetOf(report.status.MismatchPaths[pair])
           : pair \in StatusPairs}

(* C35: a path on which no layer returned status 200 produces no           *)
(* discrepancy of any kind, no match and no read-counter change: its       *)
(* evaluation leaves re.responseReads as it was, the report holds it in no *)
(* status-mismatch collection and counts it for no layer, and the full     *)
(* results hold it.                                                        *)
C35_AllFailedPathLeavesNoTrace ==
  /\ [](\A p \in reqs : NoLayer200(p) =>
          /\ p \notin PathsInResponseReads
          /\ Reported =>
               /\ p \notin PathsInStatusReport
               /\ \A l \in Layers :
                    report.status.result2xx[l]
                      <= Cardinality({q \in reqs : ~NoLayer200(q)})
          /\ resultsFile.written => p \in DOMAIN resultsFile.json)
  /\ [][\A p \in reqs : (EvalStep(p) /\ NoLayer200(p)) => responseReads' = responseReads]_vars

(* The report was written on a run of two paths: on one a layer did not    *)
(* answer, another answered 206 and none answered 200; the other path left *)
(* discrepancies.                                                          *)
C35_Witness ==
  /\ Reported /\ Cardinality(reqs) = 2
  /\ \E p \in reqs :
       /\ NoLayer200(p)
       /\ \E l \in Layers : results[p][l].StatusCode = 0
       /\ \E l \in Layers : results[p][l].StatusCode = 206
  /\ PathsInResponseReads # {} /\ PathsInStatusReport # {}

(* the Results (maps from slot to Result) some store, file or collection holds *)
KeptResults ==
  {results[p] : p \in DOMAIN results}
    \cup (IF resultsFile.written THEN {resultsFile.json[p] : p \in DOMAIN resultsFile.json} ELSE {})
    \cup UNION {{responseReads.Mismatches[pair][p] : p \in DOMAIN responseReads.Mismatches[pair]}
                  : pair \in ContentPairs}
    \cup (IF report.written
          THEN UNION {{report.status.Mismatch[pair][p] : p \in DOMAIN report.status.Mismatch[pair]}
                        : pair \in StatusPairs}
          ELSE {})

(* C36: every Result kept in the store, and so in results.json and in the  *)
(* discrepancy collections, has its response body cleared, while its       *)
(* response size is the length of the body that was read; the bytes are    *)
(* held by the locals of the path task only.                               *)
C36_StoredBodiesCleared ==
  /\ \A rs \in KeptResults : \A l \in DOMAIN rs : rs[l].ResponseBody = <<>>
  /\ \A l \in ReadLayers : \A p \in DOMAIN responseReads.ReadErrors[l] :
       responseReads.ReadErrors[l][p].ResponseBody = <<>>
  /\ \A p \in DOMAIN results : \A l \in DOMAIN results[p] :
       /\ results[p][l].ResponseSize = Len(rbs[p][l])
       /\ rbs[p][l] # <<>> => rbs[p][l] = resp[p][l].body
  /\ \A p \in reqs : \A l \in Layers : sub[p][l] # "done" => rbs[p][l] = <<>>

(* results.json was written with a Result of size four whose bytes the     *)
(* path task holds, and the evaluation recorded a content discrepancy with *)
(* them.                                                                   *)
C36_Witness ==
  /\ resultsFile.written
  /\ \E p \in DOMAIN resultsFile.json : \E l \in Layers :
       /\ resultsFile.json[p][l].ResponseSize = 4 /\ Len(rbs[p][l]) = 4
       /\ \E pair \in ContentPairs :
            l \in {First(pair), Second(pair)} /\ p \in DOMAIN responseReads.Mismatches[pair]

====
